---- MODULE Spec2Model ----
(***************************************************************************)
(* market-news backend: the collection -> consolidation -> briefing        *)
(* pipeline (backend/app), as a state machine.                             *)
(*                                                                         *)
(* The database is one committed state (keywords, articles,                *)
(* topic_summaries, briefings).  Every entry point (scheduled_job,         *)
(* manual_refresh, _collect_and_process, cleanup_old_data) runs as a       *)
(* process with its own SQLAlchemy session: rows it has add()ed and marks  *)
(* it has set are visible to itself only until its commit.  A process      *)
(* takes one step per awaited database or network call.                    *)
(***************************************************************************)
EXTENDS Integers, Sequences, FiniteSets, TLC

\* ---------------------------------------------------------------- bounds
MaxRuns == 2            \* entry-point invocations in one behaviour
MaxDayChanges == 1      \* calendar-date changes in one behaviour

\* ------------------------------------------------------ program constants
RetentionDays == 30     \* cleanup_old_data(days: int = 30)
MinSummaryLen == 30     \* len(section["summary"]) < 30 is rejected
MaxAttempts == 3        \* for attempt in range(3)

\* ------------------------------------------------------------ value sets
NULL == "NULL"
NoLink == ""                                \* item.get("url", "")
Links == {"a", "b"}
Sessions == {"morning", "midday", "evening"} \* BriefingSession
Sentiments == {"Bullish", "Bearish", "Neutral"}
Consolidated == "consolidated"              \* the processed-marker
Procs == Sessions \cup {"manual", "kwtask"}

\* ------------------------------------------------------------- utilities
Max(S) == IF S = {} THEN 0 ELSE CHOOSE x \in S : \A y \in S : y <= x

Range(s) == {s[i] : i \in 1..Len(s)}

RECURSIVE DropEmpty(_)
\* `if not link: continue`: candidates without a link are passed over
\* without touching the database
DropEmpty(cs) ==
    IF cs = <<>> THEN <<>>
    ELSE IF Head(cs) = NoLink THEN DropEmpty(Tail(cs))
    ELSE cs

\* ----------------------------------------------------------------- state
VARIABLES
    today,            \* date.today(), as a day number
    dayChanges,       \* how often the date has changed
    keywords,         \* table keywords
    articles,         \* table articles (committed rows)
    topic_summaries,  \* table topic_summaries (committed rows)
    briefings,        \* table briefings (committed rows)
    pc,               \* per process: the awaited call it is at
    loc,              \* per process: local variables of the running functions
    sess,             \* per process: the unit of work of its AsyncSession
    runs,             \* entry-point invocations so far
    lastCollect,      \* history: the last collect_all call that returned
    genHist,          \* history: generate calls per session on one date
    stats,            \* _compute_basic_stats: its argument and its result
    fcall             \* a helper function: its argument and its result

vars == <<today, dayChanges, keywords, articles, topic_summaries, briefings,
          pc, loc, sess, runs, lastCollect, genHist, stats, fcall>>

\* --------------------------------------------------------------- Article
ArticleLinks(db) == {r.link : r \in db}

\* the select by link, mutated: it sees the committed rows only
LinkExistsInTable(db, pend, link) == link \in ArticleLinks(db)

\* select(Article.id).where(Article.link == link): with autoflush the rows the
\* session has add()ed are part of what the query sees
LinkExists(db, pend, link) ==
    \/ link \in ArticleLinks(db)
    \/ \E i \in 1..Len(pend) : pend[i].link = link

\* Article.link: unique=True.  An INSERT of a link that a committed row
\* carries, or that is inserted twice, raises IntegrityError.
UniqueOff(db, pend) == FALSE

UniqueViolation(db, pend) ==
    \/ \E i \in 1..Len(pend) : pend[i].link \in ArticleLinks(db)
    \/ \E i, j \in 1..Len(pend) : i # j /\ pend[i].link = pend[j].link

\* INSERT at flush: created_at is server_default now()
NotInserted == -1

Flush(pend, day) ==
    [i \in 1..Len(pend) |->
        IF pend[i].created = NotInserted THEN [pend[i] EXCEPT !.created = day]
        ELSE pend[i]]

\* db.commit(): nothing reaches the table
CommitNothing(db, pend, day) == db

\* raw_snippet as the adapters set it (`summary[:500] if summary else None`):
\* a snippet is the sequence of its parts, <<>> is NULL.  The feeds carry
\* item a with a summary of more than 50 characters and every other item
\* without one.
SnippetOf(link) == IF link = "a" THEN <<"long">> ELSE <<>>

\* db.commit() of the add()ed Articles: ids are rowids, the marker is unset
CommitArticles(db, pend, day) ==
    LET top == Max({r.id : r \in db})
        fl  == Flush(pend, day)
    IN  db \cup {[id |-> top + i, link |-> fl[i].link,
                  keyword_tag |-> fl[i].tag, created |-> fl[i].created,
                  ai_summary |-> NULL,
                  snippet |-> SnippetOf(fl[i].link)] : i \in 1..Len(fl)}

NoBatch == <<-1, "none">>

\* ---------------------------------------------------------------- session
SessInit == [adds |-> <<>>, sums |-> <<>>, marks |-> {}, broken |-> FALSE]

NoPass == [ran |-> FALSE, ids |-> <<>>]

\* ------------------------------------------------------------------ Init
LocInit ==
    [kw |-> 0, todo |-> {}, cur |-> NULL, cands |-> <<>>, newk |-> <<>>,
     all |-> <<>>, batch |-> NoBatch, status |-> "idle",
     \* history of the run: the day it started, the stages it has entered,
     \* the instances of the job that run, whether the job's last run failed
     started |-> 0, stages |-> <<>>, instances |-> 0, prevFailed |-> FALSE,
     \* process_batch / process_keyword
     groups |-> <<>>, gi |-> 0, attempt |-> 0, processed |-> 0,
     \* history of the running process_batch / process_keyword call
     outcomes |-> <<>>, rejected |-> FALSE, pb |-> "-",
     \* ... the AI calls made for the current group, and whether the last
     \* attempt ended in the 2-second sleep
     calls |-> 0, waited |-> FALSE,
     \* generate: its date, its AI attempts; and its history: whether its
     \* preconditions held, the AI calls made, the rows persisted, the result
     gday |-> 0, gattempt |-> 0,
     gpre |-> FALSE, gcalls |-> 0, gadded |-> 0, gres |-> "-",
     gwaited |-> FALSE,
     \* history of the running collect call
     got |-> {}, inserted |-> 0, failed |-> {}, sawDup |-> FALSE,
     undisturbed |-> TRUE, base |-> [links |-> {}, ok |-> FALSE],
     \* _fetch_rss: the feed it is at and the items found so far; history of
     \* the running collect call: the adapter calls it made, in order
     feed |-> 0, acc |-> <<>>, hist |-> <<>>,
     \* what the entry point has got back: len(new_articles) of the collect
     \* call; history: the Articles that call has persisted and the
     \* TopicSummaries the commit of process_batch has persisted
     ncollected |-> 0, nsaved |-> 0, ncreated |-> 0,
     \* history: the collect call has skipped a candidate as a duplicate
     skipped |-> FALSE,
     \* history of the running collect call: whether _scrape_bodies ran, and
     \* the articles it called extract_article_body for, in order
     scraped |-> NoPass]

\* history: the generate calls a session's job has finished on one date
NoGen == [date |-> NotInserted, n |-> 0, first_pre |-> FALSE]

\* _compute_basic_stats has not been called: no argument, no result
NoResult ==
    [raised |-> FALSE, bullish_pct |-> 0, bearish_pct |-> 0, neutral_pct |-> 0,
     must_reads |-> <<>>]

NoStats == [in |-> <<>>, applied |-> FALSE, out |-> NoResult]

\* no helper function has been called
NoCall == [fn |-> "-", in |-> <<>>, applied |-> FALSE, out |-> <<>>]

\* seed_default_keywords, reduced to one tracked topic
SeedKeywords ==
    {[id |-> 1, topic |-> "t1", region |-> "US", is_active |-> TRUE]}

Init ==
    /\ today = 0
    /\ dayChanges = 0
    /\ keywords = SeedKeywords
    /\ articles = {}
    /\ topic_summaries = {}
    /\ briefings = {}
    /\ pc = [p \in Procs |-> "idle"]
    /\ loc = [p \in Procs |-> LocInit]
    /\ sess = [p \in Procs |-> SessInit]
    /\ runs = 0
    /\ lastCollect = [links |-> {}, ok |-> FALSE]
    /\ genHist = [p \in Sessions |-> NoGen]
    /\ stats = NoStats
    /\ fcall = NoCall

\* -------------------------------------------------------- process control
ActiveKeywords == {k \in keywords : k.is_active}

\* one step of process p: its next awaited call, its locals, its session
Step(p, pcv, l, s) ==
    /\ pc' = [pc EXCEPT ![p] = pcv]
    /\ loc' = [loc EXCEPT ![p] = l]
    /\ sess' = [sess EXCEPT ![p] = s]

\* mutated: every caller returns `if not new_articles`, as
\* _collect_and_process does
CollectedNothingToDo(p) == "done"

\* where the caller of collect_all / collect_for_keyword goes on when the
\* call returns an empty list: scheduled_job and manual_refresh call
\* process_batch; _collect_and_process returns (`if not new_articles`)
Collected(p) == IF p = "kwtask" THEN "done" ELSE "pb_select"

\* the end of one keyword's try block in collect_all (77-90); the single
\* keyword of collect_for_keyword (49-66) ends the same way
AfterKeyword(p, l) ==
    IF l.todo # {} THEN "ca_fetch"
    ELSE IF l.all # <<>> THEN "ca_scrape"
    ELSE Collected(p)

\* a step of the collector: when it makes collect_all return, the call is
\* recorded as the last one that returned
CStep(p, pcv, l, s) ==
    /\ Step(p, pcv, l, s)
    /\ lastCollect' =
          IF p # "kwtask" /\ pcv = "pb_select"
          THEN [links |-> l.got, ok |-> l.failed = {} /\ l.undisturbed]
          ELSE lastCollect

KeywordDone(p, l, s) ==
    CStep(p, AfterKeyword(p, l), [l EXCEPT !.cands = <<>>, !.newk = <<>>], s)

\* except Exception: logged; collect_all goes on with the next keyword,
\* collect_for_keyword returns []
KeywordFailed(p, l, s) ==
    LET l1 == [l EXCEPT !.failed = @ \cup {l.cur}, !.cands = <<>>,
                        !.newk = <<>>]
    IN  CStep(p, AfterKeyword(p, l1), l1, s)

\* _make_batch_id, mutated: the session name is left out
MakeBatchIdNoSession(day, session) == <<day, "job">>

\* _make_batch_id: f"{datetime.now().strftime('%Y-%m-%d')}_{session_type.value}"
MakeBatchId(day, session) == <<day, session>>

\* add_job without max_instances=1: a trigger starts an instance whatever
\* runs
MayStartAlways(p) == TRUE

\* add_job(..., max_instances=1): a trigger that arrives while an instance
\* of the job runs starts nothing
MayStart(p) == pc[p] = "idle"

\* scheduled_job(session_type), triggered by its CronTrigger; max_instances=1.
\* The trigger times are not modelled: a job may fire whenever no instance of
\* it runs.  The first await is collect_all's select of the active keywords.
StartJob(p) ==
    /\ p \in Sessions
    /\ MayStart(p)
    /\ runs < MaxRuns
    /\ runs' = runs + 1
    /\ LET l == [LocInit EXCEPT !.batch = MakeBatchId(today, p),
                                !.status = "running",
                                !.started = today, !.stages = <<"collect">>,
                                !.instances = loc[p].instances + 1,
                                !.prevFailed = loc[p].prevFailed,
                                !.todo = ActiveKeywords, !.base = lastCollect]
       IN  CStep(p, AfterKeyword(p, l), l, SessInit)
    /\ UNCHANGED <<stats, fcall, today, dayChanges, keywords, articles, topic_summaries,
                   briefings, genHist>>

\* POST /api/refresh
StartManual ==
    /\ pc["manual"] = "idle"
    /\ runs < MaxRuns
    /\ runs' = runs + 1
    /\ LET l == [LocInit EXCEPT !.batch = <<today, "manual">>,
                                !.status = "running",
                                !.started = today, !.stages = <<"collect">>,
                                !.todo = ActiveKeywords, !.base = lastCollect]
       IN  CStep("manual", AfterKeyword("manual", l), l, SessInit)
    /\ UNCHANGED <<stats, fcall, today, dayChanges, keywords, articles, topic_summaries,
                   briefings, genHist>>

\* POST /api/keywords: the Keyword is committed, then the background task
\* _collect_and_process(keyword.id) selects it and calls collect_for_keyword
CreateKeyword(topic, region) ==
    /\ pc["kwtask"] = "idle"
    /\ topic \notin {x.topic : x \in keywords}
    /\ runs < MaxRuns
    /\ runs' = runs + 1
    /\ LET k == [id |-> Max({x.id : x \in keywords}) + 1, topic |-> topic,
                 region |-> region, is_active |-> TRUE]
           l == [LocInit EXCEPT !.kw = k.id, !.todo = {k},
                                !.status = "running", !.base = lastCollect]
       IN  /\ keywords' = keywords \cup {k}
           /\ CStep("kwtask", "ca_fetch", l, SessInit)
    /\ UNCHANGED <<stats, fcall, today, dayChanges, articles, topic_summaries, briefings,
                   genHist>>

\* the entry point has returned; `async with async_session()` closes the
\* session and what it had not committed is lost
Exit(p) ==
    /\ pc[p] = "done"
    /\ Step(p, "idle",
            [LocInit EXCEPT !.prevFailed = loc[p].status = "failed"], SessInit)
    /\ UNCHANGED <<stats, fcall, today, dayChanges, keywords, articles, topic_summaries,
                   briefings, runs, lastCollect, genHist>>

\* -------------------------------------------------------------- Collector
\* collect_all 77-88 after the adapter call of the current keyword: the
\* adapter has raised (~ok), or its candidate list goes to
\* _deduplicate_and_save
Adapted(p, l0, ok, items) ==
    LET cs == DropEmpty(items)
        l1 == [l0 EXCEPT !.got = @ \cup (Range(items) \ {NoLink}),
                         !.cands = cs, !.newk = <<>>]
    IN  IF ~ok THEN KeywordFailed(p, l0, sess[p])
        ELSE IF cs = <<>> THEN KeywordDone(p, l1, sess[p])
        ELSE CStep(p, "ca_dedup", l1, sess[p])

\* _collect_us_news / _collect_kr_news for one keyword: the adapters return
\* a candidate list (r.items) or raise (~r.ok).  For a US keyword nothing
\* raises: _fetch_rss, the fallback, swallows the failures of its feeds.
CA_Fetch(p, r) ==
    /\ pc[p] = "ca_fetch"
    /\ \E k \in loc[p].todo :
          /\ ~r.ok => k.region = "KR"
          /\ Adapted(p, [loc[p] EXCEPT !.todo = @ \ {k}, !.cur = k.topic],
                     r.ok, r.items)
    /\ UNCHANGED <<stats, fcall, today, dayChanges, keywords, articles, topic_summaries,
                   briefings, runs, genHist>>

\* RSS_FEEDS has two entries
NumFeeds == 2

\* an adapter call as the history keeps it: the topic, which adapter
\* ("primary": _fetch_finnhub, "feed": one feed of _fetch_rss), whether it
\* went well, whether the Finnhub API was queried, and the number of the feed
\* (for the primary adapter: the number of items it returned)
Call(topic, call, ok, queried, n) ==
    [topic |-> topic, call |-> call, ok |-> ok, queried |-> queried, n |-> n]

\* _collect_us_news: the fallback runs when _fetch_finnhub has raised
NeedsFallbackOnEmpty(r) == ~r.ok \/ r.items = <<>>
NeedsFallback(r) == ~r.ok

\* _collect_us_news, the call of _fetch_finnhub for one US keyword: it
\* raises before the request when no API key is configured (~r.queried),
\* raises after it (HTTP or JSON error), or returns the items that match the
\* keyword
US_Primary(p, r) ==
    /\ pc[p] = "ca_fetch"
    /\ \E k \in loc[p].todo :
          /\ k.region = "US"
          /\ LET l0 == [loc[p] EXCEPT
                           !.todo = @ \ {k}, !.cur = k.topic,
                           !.hist = Append(@, Call(k.topic, "primary", r.ok,
                                                   r.queried, Len(r.items)))]
             IN  IF NeedsFallback(r)
                 THEN CStep(p, "us_rss", [l0 EXCEPT !.feed = 1, !.acc = <<>>],
                            sess[p])
                 ELSE Adapted(p, l0, TRUE, r.items)
    /\ UNCHANGED <<stats, fcall, today, dayChanges, keywords, articles, topic_summaries,
                   briefings, runs, genHist>>

\* _fetch_rss, one feed: its matching entries are appended; a failure of the
\* feed is logged and the loop goes on.  After the last feed the list is
\* returned to collect_all.
US_Feed(p, r) ==
    /\ pc[p] = "us_rss"
    /\ LET l   == loc[p]
           acc == l.acc \o r.items
           l1  == [l EXCEPT !.hist = Append(@, Call(l.cur, "feed", r.ok, FALSE,
                                                    l.feed))]
       IN  IF l.feed < NumFeeds
           THEN CStep(p, "us_rss", [l1 EXCEPT !.feed = @ + 1, !.acc = acc],
                      sess[p])
           ELSE Adapted(p, [l1 EXCEPT !.feed = 0, !.acc = <<>>], TRUE, acc)
    /\ UNCHANGED <<stats, fcall, today, dayChanges, keywords, articles, topic_summaries,
                   briefings, runs, genHist>>

\* _deduplicate_and_save, one candidate: the select by link (which first
\* flushes what the session holds), then db.add
CA_Dedup(p) ==
    /\ pc[p] = "ca_dedup"
    /\ LET l    == loc[p]
           s    == sess[p]
           link == Head(l.cands)
           rest == DropEmpty(Tail(l.cands))
       IN  IF s.broken
           THEN \* PendingRollbackError: the session was never rolled back
                KeywordFailed(p, l, s)
           ELSE IF UniqueViolation(articles, s.adds)
           THEN \* IntegrityError in the autoflush
                KeywordFailed(p, l, [s EXCEPT !.adds = <<>>, !.broken = TRUE])
           ELSE
             LET fl == Flush(s.adds, today)
                 ex == LinkExists(articles, fl, link)
                 s1 == [s EXCEPT !.adds =
                           IF ex THEN fl
                           ELSE Append(fl, [link |-> link, tag |-> l.cur,
                                            created |-> NotInserted])]
                 l1 == [l EXCEPT !.cands = rest,
                                 !.newk = IF ex THEN @ ELSE Append(@, link),
                                 !.sawDup = @ \/ ex]
             IN  IF rest # <<>> THEN CStep(p, "ca_dedup", l1, s1)
                 ELSE IF l1.newk # <<>> THEN CStep(p, "ca_commit", l1, s1)
                 ELSE KeywordDone(p, l1, s1)
    /\ UNCHANGED <<stats, fcall, today, dayChanges, keywords, articles, topic_summaries,
                   briefings, runs, genHist>>

\* _deduplicate_and_save: `if new_articles: await self.db.commit()`
CA_Commit(p) ==
    /\ pc[p] = "ca_commit"
    /\ LET l == loc[p]
           s == sess[p]
           after == CommitArticles(articles, s.adds, today)
       IN  IF UniqueViolation(articles, s.adds)
           THEN \* IntegrityError; commit() rolls the session back
                /\ articles' = articles
                /\ KeywordFailed(p, l, [s EXCEPT !.adds = <<>>])
           ELSE /\ articles' = after
                /\ KeywordDone(p,
                      [l EXCEPT !.all = @ \o l.newk,
                                !.inserted = @ + Cardinality(after \ articles)],
                      [s EXCEPT !.adds = <<>>])
    /\ UNCHANGED <<stats, fcall, today, dayChanges, keywords, topic_summaries, briefings,
                   runs, genHist>>

\* `.limit(MAX_PER_KEYWORD * 10)`
ScrapeLimit == 100

\* .order_by(Article.created_at.desc()).limit(n): the n newest rows (all of
\* them when there are no more)
NewestOf(rows, n) ==
    IF Cardinality(rows) <= n THEN {rows}
    ELSE {S \in SUBSET rows :
             /\ Cardinality(S) = n
             /\ \A x \in S, y \in rows \ S : x.created >= y.created}

\* 100-103 raw_snippet IS NULL OR raw_snippet = ''
NoBody(db) == {a \in db : a.snippet = <<>>}

\* 109-114 ai_summary IS NULL AND raw_snippet IS NOT NULL: no condition on
\* the length of the snippet
ShortSnippet(db) == {a \in db : a.ai_summary = NULL /\ a.snippet # <<>>}

RECURSIVE Ascending(_)
Ascending(S) ==
    IF S = {} THEN <<>>
    ELSE LET m == CHOOSE x \in S : \A y \in S : x <= y
         IN  <<m>> \o Ascending(S \ {m})

\* 119, mutated: only the articles without snippet are scraped
ToScrapeNoBodyOnly(nb, sh) == Ascending({a.id : a \in nb})

\* 119 to_scrape = {a.id: a for a in list(no_body) + list(short_snippet)}:
\* one entry per id, those of no_body first
ToScrape(nb, sh) ==
    Ascending({a.id : a \in nb})
        \o Ascending({a.id : a \in sh} \ {a.id : a \in nb})

\* 130 `article.raw_snippet and len(article.raw_snippet) > 50`: a summary
\* of more than 50 characters or a body (more than 100)
LongSnippet(a) == \E i \in 1..Len(a.snippet) : a.snippet[i] \in {"long", "body"}

\* 129-133 the body is appended to a snippet of more than 50 characters and
\* replaces every other
Enriched(a) ==
    [a EXCEPT !.snippet = IF LongSnippet(a) THEN Append(@, "body")
                          ELSE <<"body">>]

\* `if all_articles: await self._scrape_bodies()` (92-93, 60-61) and
\* _scrape_bodies (98-140) as one step: the two selects, which raise on a
\* session left in a failed flush (collect_all lets that out to its
\* caller, collect_for_keyword catches it and returns []); one call of
\* extract_article_body per entry of to_scrape, which returns a body for
\* the articles in found; the commit of the changed snippets.
CA_ScrapeBodies(p, found) ==
    /\ pc[p] = "ca_scrape"
    /\ LET l == loc[p]
       IN  IF sess[p].broken
           THEN /\ articles' = articles
                /\ IF p = "kwtask" THEN CStep(p, "done", l, sess[p])
                   ELSE CStep(p, "done", [l EXCEPT !.status = "failed"],
                              sess[p])
           ELSE \E nb \in NewestOf(NoBody(articles), ScrapeLimit),
                   sh \in NewestOf(ShortSnippet(articles), ScrapeLimit) :
                   LET ids == ToScrape(nb, sh)
                       upd == {a \in articles :
                                  a.id \in Range(ids) \cap found}
                       l1  == [l EXCEPT !.scraped =
                                            [ran |-> TRUE, ids |-> ids]]
                   IN  /\ articles' =
                              (articles \ upd) \cup {Enriched(a) : a \in upd}
                       /\ CStep(p, IF p = "kwtask" THEN "pk_batch"
                                   ELSE "pb_select", l1, sess[p])
    /\ UNCHANGED <<stats, fcall, today, dayChanges, keywords, topic_summaries,
                   briefings, runs, genHist>>

\* the pass when extract_article_body finds no body (the pages cannot be
\* read): no snippet changes
CA_Scrape(p) == CA_ScrapeBodies(p, {})

\* ------------------------------------------------- time and retention job
\* the calendar date changes: to the next day, or past the retention horizon
AdvanceDay(d) ==
    /\ dayChanges < MaxDayChanges
    /\ dayChanges' = dayChanges + 1
    /\ today' = today + d
    /\ UNCHANGED <<stats, fcall, keywords, articles, topic_summaries, briefings, pc, loc,
                   sess, runs, lastCollect, genHist>>

OlderOrAt(rows, cutoff) == {r \in rows : r.created <= cutoff}
Older(rows, cutoff) == {r \in rows : r.created < cutoff}

\* cleanup_old_data(days=30), the daily_cleanup job: three deletes, one commit
Cleanup ==
    LET cutoff == today - RetentionDays
        gone   == Older(articles, cutoff)
    IN  /\ articles' = articles \ gone
        /\ topic_summaries' = topic_summaries \ Older(topic_summaries, cutoff)
        /\ briefings' = briefings \ Older(briefings, cutoff)
        /\ lastCollect' = [lastCollect EXCEPT !.ok = @ /\ gone = {}]
        /\ loc' = [p \in Procs |->
                     [loc[p] EXCEPT !.undisturbed = @ /\ gone = {}]]
        /\ UNCHANGED <<stats, fcall, today, dayChanges, keywords, pc, sess, runs,
                       genHist>>


\* ----------------------------------------------------------- AI responses
\* What generate_content gives back for one attempt:
\*   kind "error": the call raised
\*   kind "text" : response.text is not JSON (json.JSONDecodeError)
\*   kind "json" : parsed; `sections` is data.get("sections", []) when that
\*                 is a list, and <<>> for anything else the code rejects as
\*                 "No sections returned"
\* A section is what the code reads of it: the length of its summary
\* (NotAString when it is no str), its sentiment, its article_indices
\* (idx_ok FALSE when iterating or comparing them raises TypeError: null, a
\* number, a list holding a string), and whether its headline can be stored
\* (FALSE for an explicit null: TopicSummary.headline is nullable=False).
NotAString == -1

Section(n, sent, idx, iok, hok) ==
    [summary |-> n, sentiment |-> sent, indices |-> idx, idx_ok |-> iok,
     headline_ok |-> hok]

\* 244-248, mutated: a 29-character summary passes
ValidSectionOffByOne(sec) ==
    /\ sec.summary >= MinSummaryLen - 1
    /\ sec.sentiment \in Sentiments

\* 244-248: isinstance(summary, str), len(summary) >= 30, sentiment one of
\* the three labels
ValidSection(sec) ==
    /\ sec.summary # NotAString
    /\ sec.summary >= MinSummaryLen
    /\ sec.sentiment \in Sentiments

\* 236-250: the response is returned only when all of it is valid
ValidResponse(r) ==
    /\ r.kind = "json"
    /\ Len(r.sections) > 0
    /\ \A i \in 1..Len(r.sections) : ValidSection(r.sections[i])

\* ----------------------------------------------------------- Consolidator
RECURSIVE Perms(_)
Perms(S) ==
    IF S = {} THEN {<<>>}
    ELSE UNION {{<<x>> \o t : t \in Perms(S \ {x})} : x \in S}

\* .order_by(Article.created_at.desc()): rows of one timestamp come in an
\* order the database chooses
OrderedByCreatedDesc(rows) ==
    {o \in Perms(rows) :
        \A i, j \in 1..Len(o) : i < j => o[i].created >= o[j].created}

RECURSIVE TagsInOrder(_)
TagsInOrder(o) ==
    IF o = <<>> THEN <<>>
    ELSE LET t == TagsInOrder(SubSeq(o, 1, Len(o) - 1))
             x == o[Len(o)].keyword_tag
         IN  IF x \in Range(t) THEN t ELSE Append(t, x)

IdsOf(o) == [i \in 1..Len(o) |-> o[i].id]

\* groups[article.keyword_tag].append(article): a dict keeps the order in
\* which its keys were first seen
GroupByTag(o) ==
    LET tags == TagsInOrder(o)
    IN  [k \in 1..Len(tags) |->
            [tag |-> tags[k],
             ids |-> IdsOf(SelectSeq(o, LAMBDA a : a.keyword_tag = tags[k]))]]

\* 147-148, mutated: without the fallback to all articles of the group
ResolveIndicesNoFallback(indices, ids) ==
    LET inr == SelectSeq(indices, LAMBDA i : 1 <= i /\ i <= Len(ids))
    IN  [k \in 1..Len(inr) |-> ids[inr[k]]]

\* 146, mutated: group_articles[i] for 0 <= i < len(group_articles)
ResolveIndicesZeroBased(indices, ids) ==
    LET inr == SelectSeq(indices, LAMBDA i : 0 <= i /\ i < Len(ids))
    IN  IF inr = <<>> THEN ids ELSE [k \in 1..Len(inr) |-> ids[inr[k] + 1]]

\* [group_articles[i - 1] for i in indices if 1 <= i <= len(group_articles)],
\* and `if not section_articles: section_articles = group_articles`
ResolveIndices(indices, ids) ==
    LET inr == SelectSeq(indices, LAMBDA i : 1 <= i /\ i <= Len(ids))
    IN  IF inr = <<>> THEN ids ELSE [k \in 1..Len(inr) |-> ids[inr[k]]]

FirstBad(sections) ==
    IF \A i \in 1..Len(sections) : sections[i].idx_ok THEN Len(sections) + 1
    ELSE CHOOSE i \in 1..Len(sections) :
            /\ ~sections[i].idx_ok
            /\ \A j \in 1..(i - 1) : sections[j].idx_ok

\* 160-170, mutated: article_count=len(indices), the articles the section
\* lists instead of the articles it got
SummaryOfCountsIndices(sec, g, batch) ==
    LET src == ResolveIndices(sec.indices, g.ids)
    IN  [keyword_tag |-> g.tag, batch_id |-> batch, summary |-> sec.summary,
         sentiment |-> sec.sentiment, source_articles |-> src,
         article_count |-> Len(sec.indices), headline_ok |-> sec.headline_ok]

\* 146-170 (process_keyword 87-107): the TopicSummary of one section.
\* source_articles is json.dumps of one reference per article of
\* section_articles, kept here as the list of their ids; article_count is
\* len(section_articles)
SummaryOf(sec, g, batch) ==
    LET src == ResolveIndices(sec.indices, g.ids)
    IN  [keyword_tag |-> g.tag, batch_id |-> batch, summary |-> sec.summary,
         sentiment |-> sec.sentiment, source_articles |-> src,
         article_count |-> Len(src), headline_ok |-> sec.headline_ok]

\* 143-171: the loop over the sections db.add()s one TopicSummary per
\* section, until a section's article_indices raise
MapSections(sections, g, batch) ==
    LET k == FirstBad(sections)
    IN  [raised |-> k <= Len(sections),
         sums |-> [i \in 1..(k - 1) |-> SummaryOf(sections[i], g, batch)]]

\* 173-175, mutated: for a in section_articles, only the articles that a
\* section got
GroupMarksSources(m, g) ==
    IF m.raised THEN {}
    ELSE UNION {Range(m.sums[i].source_articles) : i \in 1..Len(m.sums)}

\* 173-175: for a in group_articles: a.ai_summary = "consolidated", reached
\* only when every section was mapped
GroupMarks(m, g) == IF m.raised THEN {} ELSE Range(g.ids)

\* commit of the marks: UPDATE articles SET ai_summary = ... WHERE id = ...
MarkArticles(db, marks) ==
    {IF r.id \in marks THEN [r EXCEPT !.ai_summary = Consolidated] ELSE r :
        r \in db}

\* commit of the add()ed TopicSummaries
InsertSummaries(db, sums, day) ==
    LET top == Max({r.id : r \in db})
    IN  db \cup {[id |-> top + i, keyword_tag |-> sums[i].keyword_tag,
                  batch_id |-> sums[i].batch_id, summary |-> sums[i].summary,
                  sentiment |-> sums[i].sentiment,
                  source_articles |-> sums[i].source_articles,
                  article_count |-> sums[i].article_count,
                  created |-> day] : i \in 1..Len(sums)}

\* the flush of a commit fails: a TopicSummary without headline
\* (IntegrityError), or a marked Article whose row is gone (StaleDataError)
FlushFails(db, s) ==
    \/ \E i \in 1..Len(s.sums) : ~s.sums[i].headline_ok
    \/ \E id \in s.marks : id \notin {r.id : r \in db}

\* collect_all / collect_for_keyword has returned: its locals are gone, and
\* with them the history of the call
EndCollect(l) ==
    [l EXCEPT !.todo = {}, !.cands = <<>>, !.newk = <<>>, !.all = <<>>,
              !.got = {}, !.inserted = 0, !.failed = {}, !.sawDup = FALSE,
              !.undisturbed = TRUE, !.base = [links |-> {}, ok |-> FALSE],
              !.feed = 0, !.acc = <<>>, !.hist = <<>>, !.scraped = NoPass]

\* process_batch has returned
EndBatch(l) ==
    [l EXCEPT !.groups = <<>>, !.gi = 0, !.attempt = 0, !.processed = 0,
              !.outcomes = <<>>, !.rejected = FALSE, !.pb = "-",
              !.calls = 0, !.waited = FALSE,
              !.ncollected = 0, !.nsaved = 0, !.ncreated = 0,
              !.skipped = FALSE]

\* where the caller goes on when process_batch returns
AfterBatch(p) == IF p \in Sessions THEN "gen_check" ELSE "done"

\* a try/except around each stage: after the failure the run goes on
RaisedGoesOn(p, l, s) ==
    Step(p, AfterBatch(p), [l EXCEPT !.status = "failed"], s)

\* no try/except: the exception leaves the entry point
RaisedEscapes(p, l, s) ==
    Step(p, "escaped", [l EXCEPT !.status = "failed"], s)

\* the entry point ends in its `except Exception` (scheduler.py 42,
\* main.py 104, keywords.py 49)
Raised(p, l, s) ==
    Step(p, "done", [l EXCEPT !.status = "failed"], s)

\* the entry point that answers with the counts of the run; the jobs only
\* log them, and for them the counts are not kept
Reports(p) == p = "manual"

\* manual_refresh 98-111: the RefreshResponse, from what the two calls
\* returned or from the exception
RefreshResponse(l) ==
    IF l.status = "failed"
    THEN [status |-> "error", articles_collected |-> 0,
          articles_processed |-> 0]
    ELSE [status |-> "success", articles_collected |-> l.ncollected,
          articles_processed |-> l.processed]

\* 121-127, mutated: the select leaves out the articles another session
\* is working on (as a row lock with SKIP LOCKED would)
UnprocessedUnclaimed(db) ==
    {a \in db : a.ai_summary = NULL
                 /\ \A q \in Procs : a.id \notin sess[q].marks}

\* 121, mutated: without the filter on ai_summary
UnprocessedOrNot(db) == db

\* 121-127 select(Article).where(Article.ai_summary.is_(None)): the
\* committed rows without marker, whatever other sessions hold
Unprocessed(db) == {a \in db : a.ai_summary = NULL}

\* process_batch 121-135: select the unprocessed articles, group them
PB_Select(p) ==
    /\ pc[p] = "pb_select"
    /\ LET l == EndCollect([loc[p] EXCEPT !.cur = NULL,
                                         !.stages = Append(@, "consolidate"),
                                         !.ncollected =
                                             IF Reports(p)
                                             THEN Len(loc[p].all) ELSE 0,
                                         !.nsaved =
                                             IF Reports(p)
                                             THEN loc[p].inserted ELSE 0,
                                         !.skipped =
                                             Reports(p) /\ loc[p].sawDup])
           un == Unprocessed(articles)
       IN  IF sess[p].broken
           THEN Raised(p, [l EXCEPT !.pb = "raised"], sess[p])
           ELSE IF un = {}
           THEN Step(p, AfterBatch(p), [l EXCEPT !.pb = "returned"], sess[p])
           ELSE \E o \in OrderedByCreatedDesc(un) :
                   Step(p, "pb_ai",
                        [l EXCEPT !.groups = GroupByTag(o), !.gi = 1,
                                  !.attempt = 0], sess[p])
    /\ UNCHANGED <<stats, fcall, today, dayChanges, keywords, articles, topic_summaries,
                   briefings, runs, lastCollect, genHist>>

\* 188-189, mutated: the commit moved into the loop, after the first group
\* that was processed
NextGroupCommitsInLoop(p, l, s) ==
    LET l1 == [l EXCEPT !.gi = @ + 1, !.attempt = 0, !.calls = 0]
    IN  IF l.processed > 0 THEN Step(p, "pb_commit", l1, s)
        ELSE IF l.gi < Len(l.groups) THEN Step(p, "pb_ai", l1, s)
        ELSE Step(p, AfterBatch(p), [l1 EXCEPT !.pb = "returned"], s)

\* the end of one group's try block in process_batch
NextGroup(p, l, s) ==
    LET l1 == [l EXCEPT !.gi = @ + 1, !.attempt = 0, !.calls = 0]
    IN  IF l.gi < Len(l.groups) THEN Step(p, "pb_ai", l1, s)
        ELSE IF l.processed > 0 THEN Step(p, "pb_commit", l1, s)
        ELSE Step(p, AfterBatch(p), [l1 EXCEPT !.pb = "returned"], s)

\* 142, mutated: a group without sections ends the loop over the groups
GroupSkippedEndsLoop(p, l, s) ==
    IF l.processed > 0 THEN Step(p, "pb_commit", l, s)
    ELSE Step(p, AfterBatch(p), [l EXCEPT !.pb = "returned"], s)

\* 173-175, mutated: the articles are marked outside `if sections:`
GroupSkippedButMarked(p, l, s) ==
    NextGroup(p, l, [s EXCEPT !.marks = @ \cup Range(l.groups[l.gi].ids)])

\* 142 `if sections:` is false for None: nothing is added or marked, the
\* loop goes on with the next group
GroupSkipped(p, l, s) == NextGroup(p, l, s)

\* `for attempt in range(3)`, mutated to range(4)
LastAttemptOneMore(attempt) == attempt = MaxAttempts

\* 254, 258 `if attempt == 2: return None`, the last pass of
\* `for attempt in range(3)`
LastAttempt(attempt) == attempt = MaxAttempts - 1

\* 252-260 (and briefing_generator.py 141-146): the handler of
\* json.JSONDecodeError never sleeps; the handler of every other exception
\* sleeps 2 seconds unless the attempt was the last
SleepsAfter(kind, attempt) == kind # "text" /\ ~LastAttempt(attempt)

\* history: the article_indices of the sections of a response
IndicesOf(sections) == [i \in 1..Len(sections) |-> sections[i].indices]

\* One attempt of _consolidate_articles (224-262) for the current group and,
\* when it returns sections, what process_batch (146-186) or
\* process_keyword (82-113) does with them before its next await.
PB_AI(p, resp) ==
    /\ pc[p] = "pb_ai"
    /\ LET l == [loc[p] EXCEPT !.calls = @ + 1, !.waited = FALSE]
           s == sess[p]
           g == l.groups[l.gi]
       IN  IF ValidResponse(resp)
           THEN LET m  == MapSections(resp.sections, g, l.batch)
                    s1 == [s EXCEPT !.sums = @ \o m.sums,
                                    !.marks = @ \cup GroupMarks(m, g)]
                    l1 == [l EXCEPT
                             !.processed =
                                 IF m.raised THEN @ ELSE @ + Len(resp.sections),
                             !.outcomes = Append(@,
                                 [kind |-> IF m.raised THEN "maperror"
                                           ELSE "validated",
                                  n |-> Len(resp.sections),
                                  idx |-> IndicesOf(resp.sections)])]
                IN  IF p = "kwtask"
                    THEN IF m.raised
                         THEN Raised(p, [l1 EXCEPT !.pb = "raised"], s1)
                         ELSE Step(p, "pb_commit", l1, s1)
                    ELSE NextGroup(p, l1, s1)
           ELSE LET l0 == [l EXCEPT !.rejected = @ \/ resp.kind = "json",
                                    !.waited = SleepsAfter(
                                        IF resp.kind = "json" THEN "invalid"
                                        ELSE resp.kind, l.attempt)]
                IN  IF ~LastAttempt(l.attempt)
                    THEN Step(p, "pb_ai", [l0 EXCEPT !.attempt = @ + 1], s)
                    ELSE \* `if attempt == 2: return None`
                      LET l1 == [l0 EXCEPT !.outcomes = Append(@,
                                     [kind |-> "exhausted", n |-> 0,
                                      idx |-> <<>>])]
                      IN  IF p = "kwtask"
                          THEN Step(p, "done", [l1 EXCEPT !.pb = "returned"], s)
                          ELSE GroupSkipped(p, l1, s)
    /\ UNCHANGED <<stats, fcall, today, dayChanges, keywords, articles, topic_summaries,
                   briefings, runs, lastCollect, genHist>>

\* process_batch 188-189 `if processed > 0: await db.commit()`;
\* process_keyword 113 `await db.commit()`
PB_Commit(p) ==
    /\ pc[p] = "pb_commit"
    /\ LET l == loc[p]
           s == sess[p]
       IN  IF FlushFails(articles, s)
           THEN /\ UNCHANGED <<articles, topic_summaries>>
                /\ Raised(p, [l EXCEPT !.pb = "raised"], SessInit)
           ELSE /\ articles' = MarkArticles(articles, s.marks)
                /\ topic_summaries' =
                       InsertSummaries(topic_summaries, s.sums, today)
                /\ Step(p, AfterBatch(p),
                        [l EXCEPT !.pb = "returned",
                                  !.ncreated = IF Reports(p)
                                               THEN Len(s.sums) ELSE 0],
                        SessInit)
    /\ UNCHANGED <<stats, fcall, today, dayChanges, keywords, briefings, runs, lastCollect,
                   genHist>>

\* _collect_and_process 34-41: the batch_id of the latest TopicSummary, or a
\* manual one when there is none
PK_Batch(p) ==
    /\ pc[p] = "pk_batch"
    /\ LET l == EndCollect(loc[p])
           newest == {x \in topic_summaries :
                        \A y \in topic_summaries : y.created <= x.created}
       IN  IF sess[p].broken THEN Raised(p, l, sess[p])
           ELSE IF topic_summaries = {}
           THEN Step(p, "pk_select",
                     [l EXCEPT !.batch = <<today, "manual">>], sess[p])
           ELSE \E x \in newest :
                   Step(p, "pk_select", [l EXCEPT !.batch = x.batch_id],
                        sess[p])
    /\ UNCHANGED <<stats, fcall, today, dayChanges, keywords, articles, topic_summaries,
                   briefings, runs, lastCollect, genHist>>

\* 70, mutated: without the filter on keyword_tag
UnprocessedOfAnyTag(db, tag) == {a \in db : a.ai_summary = NULL}

\* 70: .where(Article.ai_summary.is_(None), Article.keyword_tag == keyword_tag)
UnprocessedOf(db, tag) ==
    {a \in db : a.ai_summary = NULL /\ a.keyword_tag = tag}

\* process_keyword 68-80: the unprocessed articles of one keyword_tag
PK_Select(p) ==
    /\ pc[p] = "pk_select"
    /\ LET l == loc[p]
           un == UnprocessedOf(articles, l.cur)
       IN  IF un = {}
           THEN Step(p, "done", [l EXCEPT !.pb = "returned"], sess[p])
           ELSE \E o \in OrderedByCreatedDesc(un) :
                   Step(p, "pb_ai",
                        [l EXCEPT !.groups = GroupByTag(o), !.gi = 1,
                                  !.attempt = 0], sess[p])
    /\ UNCHANGED <<stats, fcall, today, dayChanges, keywords, articles, topic_summaries,
                   briefings, runs, lastCollect, genHist>>

\* ------------------------------------------------------ Briefing generator
\* json.loads(a.ai_summary): the only text the program ever stores in
\* ai_summary is the marker, and the marker is no JSON document
JsonTexts == {"[]", "{}", "null"}

JsonLoads(text) == text \in JsonTexts

\* _get_todays_articles: created today (or later), marker set
TodaysArticles(db, day) ==
    {a \in db : a.created >= day /\ a.ai_summary # NULL}

BriefingsFor(db, d, s) == {b \in db : b.date = d /\ b.session = s}

\* the generate call of job p is over: its place in the history of p's
\* calls on that date
GenLogged(p, d, pre) ==
    IF genHist[p].date = d
    THEN [genHist EXCEPT ![p].n = @ + 1]
    ELSE [genHist EXCEPT ![p] = [date |-> d, n |-> 1, first_pre |-> pre]]

\* generate returns to scheduled_job (`result` "none" or "briefing") or
\* raises into its `except Exception`
GenEnds(p, l, s, result) ==
    /\ Step(p, "done",
            [l EXCEPT !.gres = result,
                      !.status = IF result = "raised" THEN "failed" ELSE @],
            s)
    /\ genHist' = GenLogged(p, l.gday, l.gpre)

\* BriefingGenerator.generate (49-104) with _generate_briefing (120-148),
\* one awaited call per step:
\*   gen_check    the select of an existing Briefing for (today, session)
\*   gen_articles _get_todays_articles, then the loop that builds
\*                articles_data
\*   gen_ai       one attempt of _generate_briefing
\*   gen_commit   db.add(briefing), commit, refresh
Generate(p, resp) ==
    /\ pc[p] \in {"gen_check", "gen_articles", "gen_ai", "gen_commit"}
    /\ LET l == loc[p]
           s == sess[p]
       IN  CASE pc[p] = "gen_check" ->
                 LET l1 == [EndBatch(l) EXCEPT
                               !.gday = today,
                               !.stages = Append(@, "generate")]
                 IN  /\ UNCHANGED briefings
                     /\ IF BriefingsFor(briefings, today, p) # {}
                        THEN GenEnds(p, l1, s, "none")
                        ELSE /\ Step(p, "gen_articles", l1, s)
                             /\ UNCHANGED genHist
            [] pc[p] = "gen_articles" ->
                 LET rows == TodaysArticles(articles, today)
                     l1 == [l EXCEPT !.gpre = rows # {} /\ today = l.gday]
                 IN  /\ UNCHANGED briefings
                     /\ IF rows = {} THEN GenEnds(p, l1, s, "none")
                        ELSE IF \E a \in rows : ~JsonLoads(a.ai_summary)
                        THEN GenEnds(p, l1, s, "raised")
                        ELSE /\ Step(p, "gen_ai", l1, s)
                             /\ UNCHANGED genHist
            [] pc[p] = "gen_ai" ->
                 LET l1 == [l EXCEPT !.gcalls = @ + 1, !.gattempt = @ + 1,
                                     !.gwaited = resp.kind # "json" /\
                                         SleepsAfter(resp.kind, l.gattempt)]
                 IN  /\ UNCHANGED <<briefings, genHist>>
                     /\ IF resp.kind = "json" \/ l1.gattempt = MaxAttempts
                        THEN Step(p, "gen_commit", l1,
                                  [s EXCEPT !.adds = <<IF resp.kind = "json"
                                                       THEN "ai"
                                                       ELSE "fallback">>])
                        ELSE Step(p, "gen_ai", l1, s)
            [] pc[p] = "gen_commit" ->
                 /\ briefings' = briefings \cup
                       {[id |-> Max({b.id : b \in briefings}) + 1,
                         date |-> l.gday, session |-> p, created |-> today,
                         content |-> s.adds[1]]}
                 /\ GenEnds(p, [l EXCEPT !.gadded = 1], SessInit, "briefing")
    /\ UNCHANGED <<stats, fcall, today, dayChanges, keywords, articles, topic_summaries,
                   runs, lastCollect>>

\* ------------------------------------------------------------ environment
\* what the adapters report for one keyword
CandLists ==
    {<<>>, <<"a">>, <<"b">>, <<"a", "a">>, <<"a", "b">>, <<NoLink, "b">>}

FetchResults ==
    {[ok |-> FALSE, items |-> <<>>]}
        \cup {[ok |-> TRUE, items |-> c] : c \in CandLists}

FewFetchResults ==
    {[ok |-> TRUE, items |-> c] : c \in {<<>>, <<"a">>, <<"a", "b">>}}

\* ... when something is found
FoundResults ==
    {[ok |-> TRUE, items |-> c] : c \in {<<"a">>, <<"a", "b">>}}

Good(idx) == Section(MinSummaryLen, "Bullish", idx, TRUE, TRUE)

CallError == [kind |-> "error", sections |-> <<>>]
NotJson   == [kind |-> "text", sections |-> <<>>]
Json(secs) == [kind |-> "json", sections |-> secs]

\* the model's answers in the runs that look at the collector and at the
\* pipeline as a whole
FewResponses == {CallError, Json(<<Good(<<>>)>>)}

\* the model's answers in the runs that look at the consolidator
Responses ==
    {CallError, NotJson, Json(<<>>),
     Json(<<Good(<<1>>)>>),
     Json(<<Good(<<1>>), Good(<<2>>)>>),
     Json(<<Section(MinSummaryLen, "Neutral", <<0, 3>>, TRUE, TRUE)>>),
     Json(<<Good(<<1>>), Section(MinSummaryLen, "Bearish", <<>>, FALSE, TRUE)>>),
     Json(<<Section(MinSummaryLen - 1, "Bullish", <<1>>, TRUE, TRUE)>>),
     Json(<<Section(NotAString, "Bullish", <<1>>, TRUE, TRUE)>>),
     Json(<<Good(<<1>>), Section(MinSummaryLen, "Mixed", <<1>>, TRUE, TRUE)>>)}

\* --------------------------------------------------------- specifications
\* The scheduler's world: the three pipeline jobs, the retention job, the
\* passing of days.
Next ==
    \/ \E p \in Sessions : StartJob(p)
    \/ \E p \in Sessions : Exit(p)
    \/ \E p \in Sessions, r \in FewFetchResults : CA_Fetch(p, r)
    \/ \E p \in Sessions : CA_Dedup(p)
    \/ \E p \in Sessions : CA_Commit(p)
    \/ \E p \in Sessions : CA_Scrape(p)
    \/ \E p \in Sessions : PB_Select(p)
    \/ \E p \in Sessions, resp \in FewResponses : PB_AI(p, resp)
    \/ \E p \in Sessions : PB_Commit(p)
    \/ \E p \in Sessions, resp \in FewResponses : Generate(p, resp)
    \/ \E d \in {1, RetentionDays + 1} : AdvanceDay(d)
    \/ Cleanup

Spec == Init /\ [][Next]_vars

Users == {"manual", "kwtask"}

\* The users' world: manual refreshes and keyword creations, seen from the
\* collector (many candidate lists, few AI answers)
NextCollect ==
    \/ StartManual
    \/ CreateKeyword("t2", "KR")
    \/ \E p \in Users : Exit(p)
    \/ \E p \in Users, r \in FetchResults : CA_Fetch(p, r)
    \/ \E p \in Users : CA_Dedup(p)
    \/ \E p \in Users : CA_Commit(p)
    \/ \E p \in Users : CA_Scrape(p)
    \/ \E p \in Users : PB_Select(p)
    \/ \E p \in Users, resp \in FewResponses : PB_AI(p, resp)
    \/ \E p \in Users : PB_Commit(p)
    \/ PK_Batch("kwtask")
    \/ PK_Select("kwtask")

SpecCollect == Init /\ [][NextCollect]_vars

\* ... and seen from the consolidator (few candidate lists, many AI answers)
NextConsol ==
    \/ StartManual
    \/ CreateKeyword("t2", "KR")
    \/ \E p \in Users : Exit(p)
    \/ \E p \in Users, r \in FoundResults : CA_Fetch(p, r)
    \/ \E p \in Users : CA_Dedup(p)
    \/ \E p \in Users : CA_Commit(p)
    \/ \E p \in Users : CA_Scrape(p)
    \/ \E p \in Users : PB_Select(p)
    \/ \E p \in Users, resp \in Responses : PB_AI(p, resp)
    \/ \E p \in Users : PB_Commit(p)
    \/ PK_Batch("kwtask")
    \/ PK_Select("kwtask")

SpecConsol == Init /\ [][NextConsol]_vars

\* what _fetch_finnhub and one RSS feed can yield
PrimaryResults ==
    {[ok |-> FALSE, queried |-> q, items |-> <<>>] : q \in BOOLEAN}
        \cup {[ok |-> TRUE, queried |-> TRUE, items |-> c] :
                   c \in {<<>>, <<"a">>}}

FeedResults ==
    {[ok |-> FALSE, items |-> <<>>], [ok |-> TRUE, items |-> <<>>],
     [ok |-> TRUE, items |-> <<"b">>]}

\* The US adapters' world: manual refreshes over two tracked US topics
\* (seed_default_keywords seeds several), the adapter call by call
SeedTopics ==
    {[id |-> 1, topic |-> "t1", region |-> "US", is_active |-> TRUE],
     [id |-> 2, topic |-> "t2", region |-> "US", is_active |-> TRUE]}

InitFetch ==
    /\ today = 0
    /\ dayChanges = 0
    /\ keywords = SeedTopics
    /\ articles = {}
    /\ topic_summaries = {}
    /\ briefings = {}
    /\ pc = [p \in Procs |-> "idle"]
    /\ loc = [p \in Procs |-> LocInit]
    /\ sess = [p \in Procs |-> SessInit]
    /\ runs = 0
    /\ lastCollect = [links |-> {}, ok |-> FALSE]
    /\ genHist = [p \in Sessions |-> NoGen]
    /\ stats = NoStats
    /\ fcall = NoCall

NextFetch ==
    \/ StartManual
    \/ Exit("manual")
    \/ \E r \in PrimaryResults : US_Primary("manual", r)
    \/ \E r \in FeedResults : US_Feed("manual", r)
    \/ CA_Dedup("manual")
    \/ CA_Commit("manual")
    \/ CA_Scrape("manual")
    \/ PB_Select("manual")
    \/ \E resp \in FewResponses : PB_AI("manual", resp)
    \/ PB_Commit("manual")

SpecFetch == InitFetch /\ [][NextFetch]_vars

\* The retention job's world: manual refreshes on both sides of a change of
\* date that puts the stored rows exactly at, or one day past, the retention
\* horizon, and the daily cleanup
NextRetention ==
    \/ StartManual
    \/ Exit("manual")
    \/ \E r \in FoundResults : CA_Fetch("manual", r)
    \/ CA_Dedup("manual")
    \/ CA_Commit("manual")
    \/ CA_Scrape("manual")
    \/ PB_Select("manual")
    \/ \E resp \in FewResponses : PB_AI("manual", resp)
    \/ PB_Commit("manual")
    \/ \E d \in {RetentionDays, RetentionDays + 1} : AdvanceDay(d)
    \/ Cleanup

SpecRetention == Init /\ [][NextRetention]_vars

\* the model's answers in the runs that look at the article_indices: in and
\* out of range, in another order than the articles, none, two sections
\* that both list nothing usable, and a position listed twice
IndexResponses ==
    {CallError,
     Json(<<Good(<<1>>)>>),
     Json(<<Good(<<1, 1>>)>>),
     Json(<<Good(<<2, 1, 3>>)>>),
     Json(<<Good(<<2>>), Good(<<0, 3>>)>>),
     Json(<<Good(<<>>), Good(<<3>>)>>)}

\* The world of one topic's backlog: manual refreshes on two days, so that a
\* group holds articles of different age
NextIndex ==
    \/ StartManual
    \/ Exit("manual")
    \/ \E r \in FoundResults : CA_Fetch("manual", r)
    \/ CA_Dedup("manual")
    \/ CA_Commit("manual")
    \/ CA_Scrape("manual")
    \/ PB_Select("manual")
    \/ \E resp \in IndexResponses : PB_AI("manual", resp)
    \/ PB_Commit("manual")
    \/ AdvanceDay(1)

SpecIndex == Init /\ [][NextIndex]_vars

\* ------------------------------------------------- _compute_basic_stats
\* `[:3]`
MaxHighlights == 3

\* an ai_summary in the format json.loads(a.ai_summary)[0] expects: a JSON
\* list of bullet strings
Bullets == "[\"s\"]"

\* round(x / total * 100) of Python 3: to the nearest integer, a tie to the
\* even one (for the totals looked at, the float product is a tie exactly
\* when the fraction is one)
Round(num, den) ==
    LET q == num \div den
        r == num % den
    IN  IF 2 * r < den THEN q
        ELSE IF 2 * r > den THEN q + 1
        ELSE IF q % 2 = 0 THEN q ELSE q + 1

\* 166-167 the articles with sentiment Bullish or Bearish, in list order
NonNeutral(as) ==
    SelectSeq(as, LAMBDA a : a.sentiment \in {"Bullish", "Bearish"})

\* 166-170 sorted(..., key=created_at, reverse=True): a stable sort, equal
\* keys keep their order
RECURSIVE SortedByCreatedDesc(_)
SortedByCreatedDesc(s) ==
    IF s = <<>> THEN <<>>
    ELSE LET top == Max({s[i].created : i \in 1..Len(s)})
             i   == CHOOSE i \in 1..Len(s) :
                       /\ s[i].created = top
                       /\ \A j \in 1..(i - 1) : s[j].created # top
         IN  <<s[i]>> \o SortedByCreatedDesc(SubSeq(s, 1, i - 1)
                                               \o SubSeq(s, i + 1, Len(s)))

\* 176 `json.loads(a.ai_summary)[0] if a.ai_summary else a.title`: the
\* title, the first bullet, or an exception (json.JSONDecodeError for the
\* marker)
WhyImportant(a) ==
    IF a.ai_summary = NULL THEN "title"
    ELSE IF a.ai_summary = Bullets THEN "bullet"
    ELSE "raise"

StatsRaised ==
    [raised |-> TRUE, bullish_pct |-> 0, bearish_pct |-> 0, neutral_pct |-> 0,
     must_reads |-> <<>>]

\* _compute_basic_stats(articles)
ComputeBasicStats(as) ==
    LET total   == Len(as)
        bullish == Len(SelectSeq(as, LAMBDA a : a.sentiment = "Bullish"))
        bearish == Len(SelectSeq(as, LAMBDA a : a.sentiment = "Bearish"))
        neutral == total - bullish - bearish
        sorted  == SortedByCreatedDesc(NonNeutral(as))
        top     == SubSeq(sorted, 1, IF Len(sorted) < MaxHighlights
                                     THEN Len(sorted) ELSE MaxHighlights)
    IN  IF total = 0
        THEN [raised |-> FALSE, bullish_pct |-> 0, bearish_pct |-> 0,
              neutral_pct |-> 100, must_reads |-> <<>>]
        ELSE IF \E i \in 1..Len(top) : WhyImportant(top[i]) = "raise"
        THEN StatsRaised
        ELSE [raised |-> FALSE,
              bullish_pct |-> Round(bullish * 100, total),
              bearish_pct |-> Round(bearish * 100, total),
              neutral_pct |-> Round(neutral * 100, total),
              must_reads |-> [i \in 1..Len(top) |->
                                 [article_id |-> top[i].id,
                                  why_important |-> WhyImportant(top[i])]]]

\* the call of _compute_basic_stats
ApplyStats ==
    /\ ~stats.applied
    /\ stats' = [stats EXCEPT !.applied = TRUE,
                              !.out = ComputeBasicStats(stats.in)]
    /\ UNCHANGED <<today, dayChanges, keywords, articles, topic_summaries,
                   briefings, pc, loc, sess, runs, lastCollect, genHist,
                   fcall>>

\* the arguments: every list of up to MaxArticles Article rows with a
\* sentiment, a day of creation and an ai_summary (unset, the marker, a
\* list of bullets), and the lists of 8 and of 10 unprocessed articles
\* with b Bullish, r Bearish and the rest Neutral
MaxArticles == 4

StatArticle(i) ==
    {[id |-> i, sentiment |-> se, created |-> c, ai_summary |-> ai] :
        se \in {"Bullish", "Bearish", "Neutral"}, c \in {0, 1},
        ai \in {NULL, Consolidated, Bullets}}

ListsUpTo(max) ==
    UNION {{as \in [1..n -> UNION {StatArticle(i) : i \in 1..n}] :
               \A i \in 1..n : as[i].id = i} : n \in 0..max}

CountList(b, r, n) ==
    [i \in 1..n |->
        [id |-> i,
         sentiment |-> IF i <= b THEN "Bullish"
                       ELSE IF i <= b + r THEN "Bearish" ELSE "Neutral",
         created |-> i % 2, ai_summary |-> NULL]]

LongLists ==
    {CountList(c[1], c[2], c[3]) :
        c \in {d \in (0..10) \X (0..10) \X {8, 10} : d[1] + d[2] <= d[3]}}

InitStats ==
    /\ today = 0
    /\ dayChanges = 0
    /\ keywords = SeedKeywords
    /\ articles = {}
    /\ topic_summaries = {}
    /\ briefings = {}
    /\ pc = [p \in Procs |-> "idle"]
    /\ loc = [p \in Procs |-> LocInit]
    /\ sess = [p \in Procs |-> SessInit]
    /\ runs = 0
    /\ lastCollect = [links |-> {}, ok |-> FALSE]
    /\ genHist = [p \in Sessions |-> NoGen]
    /\ fcall = NoCall
    /\ stats \in {[NoStats EXCEPT !.in = as] :
                     as \in ListsUpTo(MaxArticles) \cup LongLists}

NextStats == ApplyStats

SpecStats == InitStats /\ [][NextStats]_vars

\* ------------------------------------------------- extract_article_body
\* article_scraper.py: `len(text) > 40`, `len(body) > 2000`, `body[:2000]`,
\* `len(body) > 100`; len("...") and len("\n\n")
MinParagraph == 40
MaxBody == 2000
MinBody == 100
EllipsisLen == 3
SeparatorLen == 2

RECURSIVE SumOf(_)
SumOf(ns) == IF ns = <<>> THEN 0 ELSE Head(ns) + SumOf(Tail(ns))

\* 41-48: the paragraphs longer than 40 characters, joined by "\n\n"; a
\* text is kept as its length
JoinedLen(paras) ==
    LET parts == SelectSeq(paras, LAMBDA n : n > MinParagraph)
    IN  IF parts = <<>> THEN 0
        ELSE SumOf(parts) + SeparatorLen * (Len(parts) - 1)

\* 54, mutated: a body of exactly 100 characters is returned
ReturnedBodyFrom100(len) == len >= MinBody

\* 54 `return body if len(body) > 100 else None`
ReturnedBody(len) == len > MinBody

\* extract_article_body(url): the request or the parser has raised
\* (page.fetch # "ok") and `except Exception` returns None; or the text of
\* the paragraphs found is joined, cut to 2000 characters plus "..." and
\* returned when it is longer than 100 characters.  Nothing leaves the
\* function as an exception.
ExtractArticleBody(page) ==
    LET joined == JoinedLen(page.paras)
        cut    == joined > MaxBody
        len    == IF cut THEN MaxBody + EllipsisLen ELSE joined
    IN  IF page.fetch # "ok"
        THEN [raised |-> FALSE, none |-> TRUE, len |-> 0, cut |-> FALSE]
        ELSE IF ReturnedBody(len)
        THEN [raised |-> FALSE, none |-> FALSE, len |-> len, cut |-> cut]
        ELSE [raised |-> FALSE, none |-> TRUE, len |-> 0, cut |-> FALSE]

\* the call of extract_article_body
ApplyExtract ==
    /\ fcall.fn = "extract_article_body"
    /\ ~fcall.applied
    /\ fcall' = [fcall EXCEPT !.applied = TRUE,
                              !.out = ExtractArticleBody(fcall.in)]
    /\ UNCHANGED <<today, dayChanges, keywords, articles, topic_summaries,
                   briefings, pc, loc, sess, runs, lastCollect, genHist,
                   stats>>

\* the pages: a request that fails (connection, HTTP status), a document
\* the parser fails on, and the documents with up to max paragraphs of
\* lengths around the three thresholds
ParaLens == {0, 40, 41, 48, 49, 57, 100, 101, 1000, 2000, 2001}

Pages(max) ==
    {[fetch |-> f, paras |-> <<>>] : f \in {"network", "status", "parse"}}
        \cup UNION {{[fetch |-> "ok", paras |-> ps] : ps \in [1..n -> ParaLens]}
                       : n \in 0..max}

MaxParas == 3

\* the other variables as Init leaves them
InitRest ==
    /\ today = 0
    /\ dayChanges = 0
    /\ keywords = SeedKeywords
    /\ articles = {}
    /\ topic_summaries = {}
    /\ briefings = {}
    /\ pc = [p \in Procs |-> "idle"]
    /\ loc = [p \in Procs |-> LocInit]
    /\ sess = [p \in Procs |-> SessInit]
    /\ runs = 0
    /\ lastCollect = [links |-> {}, ok |-> FALSE]
    /\ genHist = [p \in Sessions |-> NoGen]
    /\ stats = NoStats

InitExtract ==
    /\ InitRest
    /\ fcall \in {[NoCall EXCEPT !.fn = "extract_article_body", !.in = pg] :
                     pg \in Pages(MaxParas)}

NextExtract == ApplyExtract

SpecExtract == InitExtract /\ [][NextExtract]_vars

\* ------------------------------------------------------ _extract_source
\* a string is the sequence of its characters
Www == <<"w", "w", "w", ".">>

StartsWith(str, pre) ==
    Len(str) >= Len(pre) /\ SubSeq(str, 1, Len(pre)) = pre

\* 311 domain.replace("www.", ""): every occurrence, from the left
RECURSIVE RemoveWww(_)
RemoveWww(str) ==
    IF str = <<>> THEN <<>>
    ELSE IF StartsWith(str, Www)
    THEN RemoveWww(SubSeq(str, Len(Www) + 1, Len(str)))
    ELSE <<Head(str)>> \o RemoveWww(Tail(str))

\* 312-313 domain.split(".")[0]: the characters before the first dot; the
\* list split returns is never empty
RECURSIVE FirstPart(_)
FirstPart(str) ==
    IF str = <<>> \/ Head(str) = "." THEN <<>>
    ELSE <<Head(str)>> \o FirstPart(Tail(str))

Upper(c) == IF c = "w" THEN "W" ELSE IF c = "n" THEN "N" ELSE c
Lower(c) == IF c = "W" THEN "w" ELSE IF c = "N" THEN "n" ELSE c

\* str.capitalize(): the first character upper case, the rest lower case
Capitalize(str) ==
    [i \in 1..Len(str) |-> IF i = 1 THEN Upper(str[i]) ELSE Lower(str[i])]

\* urlparse(url).netloc: what stands between "//" and the path; empty for
\* a URL without "//" (the empty string, a relative URL)
Netloc(url) == IF url.kind = "authority" THEN url.host ELSE <<>>

Unknown == [unknown |-> TRUE, name |-> <<>>]

\* _extract_source(url): "Unknown" comes from `except Exception` only
\* (urlparse of a JSON null, of an invalid authority); `if parts` is true
\* for every string
ExtractSource(url) ==
    IF url.kind \in {"null", "invalid"} THEN Unknown
    ELSE [unknown |-> FALSE,
          name |-> Capitalize(FirstPart(RemoveWww(Netloc(url))))]

\* _collect_kr_news 273: self._extract_source(item.get("originallink", ""))
ApplySource ==
    /\ fcall.fn = "_extract_source"
    /\ ~fcall.applied
    /\ fcall' = [fcall EXCEPT !.applied = TRUE,
                              !.out = ExtractSource(fcall.in)]
    /\ UNCHANGED <<today, dayChanges, keywords, articles, topic_summaries,
                   briefings, pc, loc, sess, runs, lastCollect, genHist,
                   stats>>

\* originallink: a JSON null, a string urlparse rejects, a string without
\* "//" (also the default "" of an item without originallink), or a URL
\* with a host of up to max characters
HostChars == {"w", "n", "N", "."}

Urls(max) ==
    {[kind |-> k, host |-> <<>>] : k \in {"null", "invalid", "relative"}}
        \cup UNION {{[kind |-> "authority", host |-> h] :
                        h \in [1..n -> HostChars]} : n \in 0..max}

MaxHost == 5

InitSource ==
    /\ InitRest
    /\ fcall \in {[NoCall EXCEPT !.fn = "_extract_source", !.in = u] :
                     u \in Urls(MaxHost)}

NextSource == ApplySource

SpecSource == InitSource /\ [][NextSource]_vars

\* what the adapter reports in the runs that look at one topic from the
\* candidates to the summaries: one or two links, with and without a
\* candidate that repeats another
DupResults ==
    {[ok |-> TRUE, items |-> c] :
        c \in {<<"a">>, <<"a", "a">>, <<"b", "a">>, <<"a", "b", "a">>}}

\* the model's answers in these runs: none, one section for the first
\* article, one section per article, one section for both
PartResponses ==
    {CallError,
     Json(<<Good(<<1>>)>>),
     Json(<<Good(<<1>>), Good(<<2>>)>>),
     Json(<<Good(<<2, 1>>)>>)}

\* The world of one topic and one caller: manual refreshes, one after the
\* other
NextPipeline ==
    \/ StartManual
    \/ Exit("manual")
    \/ \E r \in DupResults : CA_Fetch("manual", r)
    \/ CA_Dedup("manual")
    \/ CA_Commit("manual")
    \/ CA_Scrape("manual")
    \/ PB_Select("manual")
    \/ \E resp \in PartResponses : PB_AI("manual", resp)
    \/ PB_Commit("manual")

SpecPipeline == Init /\ [][NextPipeline]_vars

\* The world of a user beside the scheduler: manual refreshes and the
\* morning job, whenever they are triggered
Racers == {"manual", "morning"}

NextRace ==
    \/ StartManual
    \/ StartJob("morning")
    \/ \E p \in Racers : Exit(p)
    \/ \E p \in Racers, r \in FoundResults : CA_Fetch(p, r)
    \/ \E p \in Racers : CA_Dedup(p)
    \/ \E p \in Racers : CA_Commit(p)
    \/ \E p \in Racers : CA_Scrape(p)
    \/ \E p \in Racers : PB_Select(p)
    \/ \E p \in Racers, resp \in FewResponses : PB_AI(p, resp)
    \/ \E p \in Racers : PB_Commit(p)
    \/ \E resp \in FewResponses : Generate("morning", resp)

SpecRace == Init /\ [][NextRace]_vars

\* The world of the body extraction: manual refreshes and keyword
\* creations; extract_article_body finds a body for any of the articles
ArticleIds == 1..Cardinality(Links)

NextScrape ==
    \/ StartManual
    \/ CreateKeyword("t2", "KR")
    \/ \E p \in Users : Exit(p)
    \/ \E p \in Users, r \in FewFetchResults : CA_Fetch(p, r)
    \/ \E p \in Users : CA_Dedup(p)
    \/ \E p \in Users : CA_Commit(p)
    \/ \E p \in Users, found \in SUBSET ArticleIds : CA_ScrapeBodies(p, found)
    \/ \E p \in Users : PB_Select(p)
    \/ \E p \in Users, resp \in FewResponses : PB_AI(p, resp)
    \/ \E p \in Users : PB_Commit(p)
    \/ PK_Batch("kwtask")
    \/ PK_Select("kwtask")

SpecScrape == Init /\ [][NextScrape]_vars

\* POST /api/refresh, time and again: the refreshes are not counted
RefreshAgain ==
    /\ pc["manual"] = "idle"
    /\ LET l == [LocInit EXCEPT !.batch = <<today, "manual">>,
                                !.status = "running",
                                !.started = today, !.stages = <<"collect">>,
                                !.todo = ActiveKeywords, !.base = lastCollect]
       IN  CStep("manual", AfterKeyword("manual", l), l, SessInit)
    /\ UNCHANGED <<stats, fcall, today, dayChanges, keywords, articles,
                   topic_summaries, briefings, runs, genHist>>

\* the answer of a model that does its work: one valid section
GoodAnswer == Json(<<Good(<<>>)>>)

\* The world of a backlog: refresh after refresh without end, each with
\* collect_all and process_batch as in scheduled_job
NextRetry ==
    \/ RefreshAgain
    \/ Exit("manual")
    \/ \E r \in FewFetchResults : CA_Fetch("manual", r)
    \/ CA_Dedup("manual")
    \/ CA_Commit("manual")
    \/ CA_Scrape("manual")
    \/ PB_Select("manual")
    \/ \E resp \in FewResponses : PB_AI("manual", resp)
    \/ PB_Commit("manual")

\* Every awaited call returns and the next refresh comes (weak fairness of
\* the one sequential caller); the model does not fail for ever: when it is
\* asked again and again it answers with valid sections at some time
\* (strong fairness of that answer)
FairRetry ==
    /\ WF_vars(NextRetry)
    /\ SF_vars(PB_AI("manual", GoodAnswer))

SpecRetry == Init /\ [][NextRetry]_vars /\ FairRetry

\* ------------------------------------------------------------------ claims
\* C1: in every reachable state no two persisted Articles share a link,
\* whatever the candidate lists and however collect_all and
\* collect_for_keyword interleave.
C1_UniqueLinks == \A a, b \in articles : a.link = b.link => a = b

\* a collector has met a link that was already stored or already add()ed,
\* and both links are persisted
C1_Witness ==
    /\ \E p \in Users : loc[p].sawDup
    /\ ArticleLinks(articles) = Links

\* C2: a collect_all that starts after a failure-free collect_all has
\* returned, and is given the same candidate set, with no retention cleanup
\* in between, persists no Article and returns an empty list.
C2_Idempotent ==
    \A p \in Procs \ {"kwtask"} :
        ( /\ pc[p] = "pb_select"
          /\ loc[p].base.ok
          /\ loc[p].undisturbed
          /\ loc[p].got = loc[p].base.links )
        => loc[p].inserted = 0 /\ loc[p].all = <<>>

\* the second collect_all has returned, its candidates were those of the
\* first, and it met them in the table
C2_Witness ==
    /\ pc["manual"] = "pb_select"
    /\ loc["manual"].base.ok
    /\ loc["manual"].got = loc["manual"].base.links
    /\ loc["manual"].got # {}
    /\ loc["manual"].sawDup

\* a group of the call is over with a validated response
Validated(o) == o.kind # "exhausted"

IsMarked(db, id) == \E a \in db : a.id = id /\ a.ai_summary = Consolidated

\* C3: once process_batch or process_keyword has obtained a validated
\* response for a group, every article of the group is marked processed in
\* the committed state the call leaves.
C3_GroupMarked ==
    \A p \in Procs :
        loc[p].pb # "-" =>
            \A i \in 1..Len(loc[p].outcomes) :
                Validated(loc[p].outcomes[i]) =>
                    \A id \in Range(loc[p].groups[i].ids) :
                        IsMarked(articles, id)

\* C4: every TopicSummary, persisted or add()ed to a session, has a summary
\* of at least 30 characters and one of the three sentiments.
C4_SummariesValid ==
    /\ \A x \in topic_summaries :
          x.summary >= MinSummaryLen /\ x.sentiment \in Sentiments
    /\ \A p \in Procs : \A i \in 1..Len(sess[p].sums) :
          /\ sess[p].sums[i].summary >= MinSummaryLen
          /\ sess[p].sums[i].sentiment \in Sentiments

\* a call that had a JSON response rejected has persisted a TopicSummary
C4_Witness ==
    \E p \in Procs :
        /\ loc[p].rejected
        /\ loc[p].pb = "returned"
        /\ \E x \in topic_summaries : x.batch_id = loc[p].batch

\* process_batch of p returns in this step
BatchReturns(p) == loc[p].pb = "-" /\ loc'[p].pb = "returned"

NewSummaries(tag) ==
    {x \in topic_summaries' \ topic_summaries : x.keyword_tag = tag}

\* C5: when process_batch returns it has attempted every group, and for a
\* group whose attempts were exhausted it has persisted no TopicSummary and
\* changed the marker of none of its articles.
C5_ExhaustedSkipped ==
    [][\A p \in Procs \ {"kwtask"} :
          BatchReturns(p) =>
            /\ Len(loc'[p].outcomes) = Len(loc'[p].groups)
            /\ \A i \in 1..Len(loc'[p].outcomes) :
                  ~Validated(loc'[p].outcomes[i]) =>
                    /\ NewSummaries(loc'[p].groups[i].tag) = {}
                    /\ \A id \in Range(loc'[p].groups[i].ids) :
                          IsMarked(articles', id) = IsMarked(articles, id)]_vars

\* a process_batch has returned after a group that was exhausted and a
\* later group that was validated
C5_Witness ==
    \E p \in Procs \ {"kwtask"} :
        /\ loc[p].pb = "returned"
        /\ \E i, j \in 1..Len(loc[p].outcomes) :
              /\ i < j
              /\ loc[p].outcomes[i].kind = "exhausted"
              /\ loc[p].outcomes[j].kind = "validated"

\* C6: the commit of process_batch leaves each group all or nothing: one
\* TopicSummary per section of its validated response and every article
\* marked, or no TopicSummary and no article newly marked.
C6_AllOrNothing ==
    [][\A p \in Procs \ {"kwtask"} :
          (pc[p] = "pb_commit" /\ BatchReturns(p)) =>
            \A i \in 1..Len(loc[p].groups) :
                LET g == loc[p].groups[i]
                    o == loc[p].outcomes[i]
                IN  \/ /\ o.kind = "validated"
                       /\ Cardinality(NewSummaries(g.tag)) = o.n
                       /\ \A id \in Range(g.ids) : IsMarked(articles', id)
                    \/ /\ NewSummaries(g.tag) = {}
                       /\ \A id \in Range(g.ids) :
                             IsMarked(articles', id) = IsMarked(articles, id)]_vars

\* the generate call of job p is over
GenerateOver(p) == pc[p] = "done" /\ loc[p].gres # "-"

\* C7: a generate(session) that finds no Briefing for (today, session) and
\* at least one of today's articles marked by the Consolidator does not
\* raise, persists one Briefing for (today, session) and returns it.
C7_GenerateDelivers ==
    \A p \in Sessions :
        (GenerateOver(p) /\ loc[p].gpre) =>
            /\ loc[p].gres = "briefing"
            /\ loc[p].gadded = 1
            /\ \E b \in briefings : b.date = loc[p].gday /\ b.session = p

\* C8: of two generate(session) calls in sequence on one date, the first
\* finding its preconditions met, the second returns none, persists nothing
\* and calls no AI model, and one Briefing row for (date, session) exists.
C8_SecondCallNoop ==
    \A p \in Sessions :
        ( /\ GenerateOver(p)
          /\ genHist[p].date = loc[p].gday
          /\ genHist[p].n = 2
          /\ genHist[p].first_pre )
        => /\ Cardinality(BriefingsFor(briefings, loc[p].gday, p)) = 1
           /\ loc[p].gres = "none"
           /\ loc[p].gadded = 0
           /\ loc[p].gcalls = 0

GroupEnds(p) == Len(loc'[p].outcomes) = Len(loc[p].outcomes) + 1

\* C11: for each group at most 3 AI calls are made: a call either ends the
\* group (sections returned, or none after the third failure) or is followed
\* by a retry; a group given up has had exactly 3 calls.
C11_AtMostThreeCalls ==
    /\ [](\A p \in Procs : pc[p] = "pb_ai" => loc[p].calls < MaxAttempts)
    /\ [][\A p \in Procs :
            GroupEnds(p) =>
              LET o == loc'[p].outcomes[Len(loc'[p].outcomes)]
              IN  /\ loc[p].calls + 1 <= MaxAttempts
                  /\ o.kind = "exhausted" => loc[p].calls + 1 = MaxAttempts]_vars

\* a group was given up, a later one got its sections at the third call
C11_Witness ==
    \E p \in Procs :
        /\ pc[p] = "pb_ai"
        /\ loc[p].calls = MaxAttempts - 1
        /\ \E i \in 1..Len(loc[p].outcomes) :
              loc[p].outcomes[i].kind = "exhausted"

\* C12: a retry starts only after the 2-second wait that follows the failed
\* attempt, in the Consolidator and in the Briefing Generator, and no wait
\* follows an attempt that ends the loop.
C12_WaitBeforeRetry ==
    \A p \in Procs :
        /\ pc[p] = "pb_ai" => (loc[p].waited <=> loc[p].attempt > 0)
        /\ pc[p] = "gen_ai" => (loc[p].gwaited <=> loc[p].gattempt > 0)
        /\ pc[p] \notin {"pb_ai", "gen_ai"} =>
              ~loc[p].waited /\ ~loc[p].gwaited

Pipeline == <<"collect", "consolidate", "generate">>

IsPrefix(a, b) == Len(a) <= Len(b) /\ a = SubSeq(b, 1, Len(a))

\* C13: the stages a scheduled run has entered are an initial part of
\* Collector, Consolidator, Briefing Generator, each entered once and when
\* the one before has returned; once a stage has raised, the run enters no
\* further stage.
C13_StagesInOrder ==
    /\ [](\A p \in Sessions :
            /\ IsPrefix(loc[p].stages, Pipeline)
            /\ pc[p] \in {"pb_select", "pb_ai", "pb_commit"} =>
                  Len(loc[p].stages) = IF pc[p] = "pb_select" THEN 1 ELSE 2
            /\ pc[p] \in {"gen_articles", "gen_ai", "gen_commit"} =>
                  loc[p].stages = Pipeline)
    /\ [][\A p \in Sessions :
            loc[p].status = "failed" =>
                loc'[p].stages = loc[p].stages \/ pc'[p] = "idle"]_vars

\* a run has ended in a failure of its Consolidator stage
C13_Witness ==
    \E p \in Sessions :
        /\ pc[p] = "done"
        /\ loc[p].status = "failed"
        /\ loc[p].stages = <<"collect", "consolidate">>

\* C14: a stage's exception ends the job at its normal end, and whenever a
\* job is idle (also after a failed run) its next trigger can start it.
C14_FailureCaught ==
    \A p \in Sessions :
        /\ loc[p].status = "failed" => pc[p] = "done"
        /\ (pc[p] = "idle" /\ runs < MaxRuns) => ENABLED StartJob(p)

\* a job's run has failed and ended, and the trigger of another job can
\* start that job
C14_Witness ==
    \E p, q \in Sessions :
        /\ p # q
        /\ loc[p].prevFailed /\ pc[p] = "idle"
        /\ runs < MaxRuns /\ ENABLED StartJob(q)

C16_BatchId ==
    /\ [](\A p \in Sessions : pc[p] # "idle" =>
            /\ \A i \in 1..Len(sess[p].sums) :
                  sess[p].sums[i].batch_id = loc[p].batch
            /\ \A q \in Sessions : pc[q] # "idle" =>
                  ( loc[p].batch = loc[q].batch
                    <=> (loc[p].started = loc[q].started /\ p = q) ))
    /\ [][\A p \in Sessions :
            (pc[p] = "pb_commit" /\ pc'[p] # "pb_commit") =>
                \A x \in topic_summaries' \ topic_summaries :
                    /\ x.batch_id = loc[p].batch
                    /\ x.batch_id = MakeBatchId(loc[p].started, p)]_vars

\* a run has committed a TopicSummary after the date had changed: the
\* identifier carries the start date
C16_Witness ==
    \E x \in topic_summaries :
        /\ x.batch_id[2] \in Sessions
        /\ x.batch_id[1] # x.created

\* the collect_all call of p is over: it has returned, or it has raised
CollectReturned(p) == pc[p] = "pb_select"
CollectRaised(p) ==
    pc[p] = "done" /\ loc[p].status = "failed" /\ loc[p].stages = <<"collect">>

\* C17: when the adapter or the save step of a topic has failed during
\* collect_all, the call still returns, has gone through every active
\* topic, and returns exactly the articles it has persisted.
C17_TopicFailureIsolated ==
    \A p \in Procs \ {"kwtask"} :
        (loc[p].failed # {} /\ (CollectReturned(p) \/ CollectRaised(p))) =>
            /\ CollectReturned(p)
            /\ loc[p].todo = {}
            /\ Len(loc[p].all) = loc[p].inserted
            /\ Range(loc[p].all) \subseteq ArticleLinks(articles)

\* the adapter calls of kind c that the history h holds for topic t
CallsOf(h, t, c) == {i \in DOMAIN h : h[i].topic = t /\ h[i].call = c}

\* the feeds a finished or running fallback of topic t has asked so far
FeedsDue(p, t, raised) ==
    IF ~raised THEN 0
    ELSE IF pc[p] = "us_rss" /\ loc[p].cur = t THEN loc[p].feed - 1
    ELSE NumFeeds

\* the fallback of p has asked its last feed and returns
FallbackReturns(p) == pc[p] = "us_rss" /\ pc'[p] # "us_rss"

\* C18: in one collect call, every US topic that has been taken up has
\* exactly one call of the primary adapter, made before any call of the
\* fallback; the fallback's feeds are asked, each exactly once and in order,
\* if and only if that primary call raised (none after an empty primary
\* result); and when the fallback returns, the topic has not failed, even if
\* feeds of it did.
C18_PrimaryThenFallback ==
    /\ [](\A p \in Users :
            LET h == loc[p].hist
            IN  \A t \in {h[i].topic : i \in DOMAIN h} :
                   LET P == CallsOf(h, t, "primary")
                       F == CallsOf(h, t, "feed")
                   IN  /\ Cardinality(P) = 1
                       /\ \A i \in P :
                             /\ \A j \in F : i < j
                             /\ Cardinality(F) = FeedsDue(p, t, ~h[i].ok)
                             /\ \A j \in F : h[j].n = j - i)
    /\ [][\A p \in Users :
             FallbackReturns(p) =>
                 /\ loc'[p].failed = loc[p].failed
                 /\ Range(loc[p].acc) \subseteq loc'[p].got]_vars

\* C18 witness: a collect_all call has returned after two US topics, one
\* whose primary result was empty without an exception and has no fallback
\* call, and one whose primary call raised and whose fallback lost a feed
\* and still delivered an article.
C18_Witness ==
    /\ CollectReturned("manual")
    /\ LET h == loc["manual"].hist
       IN  /\ \E i \in DOMAIN h :
                 /\ h[i].call = "primary" /\ h[i].ok
                 /\ CallsOf(h, h[i].topic, "feed") = {}
                 /\ h[i].n = 0
           /\ \E i \in DOMAIN h, j \in DOMAIN h :
                 /\ h[i].call = "primary" /\ ~h[i].ok
                 /\ h[j].call = "feed" /\ ~h[j].ok /\ h[j].topic = h[i].topic
                 /\ Cardinality(CallsOf(h, h[i].topic, "feed")) = NumFeeds
                 /\ h[i].topic \notin loc["manual"].failed
           /\ loc["manual"].all # <<>>

\* C19: in one collect_all call the Finnhub API is queried at most once,
\* however many active US topics there are.
C19_OneQueryPerRun ==
    \A p \in Users \ {"kwtask"} :
        Cardinality({i \in DOMAIN loc[p].hist :
                        loc[p].hist[i].call = "primary"
                        /\ loc[p].hist[i].queried}) <= 1

\* the rows of a table that a step deletes (row ids that are gone)
Deleted(rows, rowsAfter) ==
    {r \in rows : r.id \notin {x.id : x \in rowsAfter}}

\* the rows of a table created at or after the cutoff of cleanup_old_data
Recent(rows) == {r \in rows : r.created >= today - RetentionDays}

\* C20: a step that deletes rows (only cleanup_old_data does) deletes, in
\* each of the three tables, exactly the rows created before today minus
\* the retention period: every row created at or after the cutoff is still
\* there, unchanged, and nothing else is.
C20_CleanupExact ==
    [][(\/ Deleted(articles, articles') # {}
        \/ Deleted(topic_summaries, topic_summaries') # {}
        \/ Deleted(briefings, briefings') # {})
          => /\ articles' = Recent(articles)
             /\ topic_summaries' = Recent(topic_summaries)
             /\ briefings' = Recent(briefings)]_vars

\* C20 witness: the cleanup has deleted the Article and the TopicSummary of
\* the first run, which were older than the cutoff, and has kept those of
\* the second run.
C20_Witness ==
    /\ today = RetentionDays + 1
    /\ {r.id : r \in articles} = {2}
    /\ {r.id : r \in topic_summaries} = {2}
    /\ \A r \in articles \cup topic_summaries : r.created = today

\* C21: every persisted TopicSummary, and every one add()ed to a session,
\* has article_count equal to the number of entries of its source_articles,
\* whether process_batch or process_keyword made it and whether its section
\* got its listed articles or, by the fallback, all articles of the group.
C21_CountMatchesSources ==
    /\ \A x \in topic_summaries : x.article_count = Len(x.source_articles)
    /\ \A p \in Procs : \A i \in 1..Len(sess[p].sums) :
          sess[p].sums[i].article_count = Len(sess[p].sums[i].source_articles)

\* C21 witness: TopicSummaries are persisted for a group of two articles,
\* one with a single listed article and one that got both articles, and the
\* keyword task's process_keyword has persisted one as well.
C21_Witness ==
    /\ \E x, y \in topic_summaries :
          /\ x.keyword_tag = y.keyword_tag
          /\ x.article_count = 1
          /\ y.article_count = 2
    /\ loc["kwtask"].pb = "returned"
    /\ \E i \in 1..Len(loc["kwtask"].outcomes) :
          loc["kwtask"].outcomes[i].kind = "validated"

\* the TopicSummaries that the step add()s to p's session
Added(p) == SubSeq(sess'[p].sums, Len(sess[p].sums) + 1, Len(sess'[p].sums))

\* the listed positions of a section that name an article of a group of n
InRange(indices, n) == {k \in 1..Len(indices) : 1 <= indices[k] /\ indices[k] <= n}

CreatedOf(id) == (CHOOSE a \in articles : a.id = id).created

\* C25: when a group's validated response is mapped, the group's articles
\* stand in recency order, and each section's source articles are the
\* articles at the listed positions (1-based) that lie within the group,
\* one per such position and in the listed order; a section none of whose
\* positions lies within the group (or that lists none) gets all articles
\* of the group.
C25_IndicesResolved ==
    [][\A p \in Procs :
          (GroupEnds(p) /\ loc'[p].outcomes[Len(loc'[p].outcomes)].kind = "validated")
            => LET g   == loc[p].groups[loc[p].gi]
                   idx == loc'[p].outcomes[Len(loc'[p].outcomes)].idx
                   new == Added(p)
               IN  /\ \A i, j \in 1..Len(g.ids) :
                         i < j => CreatedOf(g.ids[i]) >= CreatedOf(g.ids[j])
                   /\ Len(new) = Len(idx)
                   /\ \A j \in 1..Len(idx) :
                         LET ks  == InRange(idx[j], Len(g.ids))
                             src == new[j].source_articles
                         IN  IF ks = {} THEN src = g.ids
                             ELSE /\ Len(src) = Cardinality(ks)
                                  /\ \A k \in ks :
                                        src[Cardinality({h \in ks : h <= k})]
                                            = g.ids[idx[j][k]]]_vars

\* C25 witness: for a group of an older and a newer article, a section that
\* listed positions 2, 1, 3 has been persisted with the older article first
\* and the newer one second.
C25_Witness ==
    \E x \in topic_summaries :
        /\ Len(x.source_articles) = 2
        /\ CreatedOf(x.source_articles[1]) < CreatedOf(x.source_articles[2])

\* C26: when more than one section of a group's validated response lists no
\* position within the group, each of them gets all articles of the group,
\* so an article is a source of two TopicSummaries of one group and batch.
C26_FallbackSectionsOverlap ==
    [][\A p \in Procs :
          (GroupEnds(p) /\ loc'[p].outcomes[Len(loc'[p].outcomes)].kind = "validated")
            => LET g   == loc[p].groups[loc[p].gi]
                   idx == loc'[p].outcomes[Len(loc'[p].outcomes)].idx
                   new == Added(p)
               IN  \A j, k \in 1..Len(idx) :
                     ( /\ j # k
                       /\ InRange(idx[j], Len(g.ids)) = {}
                       /\ InRange(idx[k], Len(g.ids)) = {} )
                     => /\ Range(new[j].source_articles) = Range(g.ids)
                        /\ Range(new[k].source_articles) = Range(g.ids)
                        /\ new[j].keyword_tag = new[k].keyword_tag
                        /\ new[j].batch_id = new[k].batch_id]_vars

\* C26 witness: two persisted TopicSummaries of one topic tag and batch
\* share a source article.
C26_Witness ==
    \E x, y \in topic_summaries :
        /\ x.id # y.id
        /\ x.keyword_tag = y.keyword_tag
        /\ x.batch_id = y.batch_id
        /\ Range(x.source_articles) \cap Range(y.source_articles) # {}

\* the step is one of process p
StepOf(p) == pc'[p] # pc[p] \/ loc'[p] # loc[p]

\* C27: no step of process_batch before its commit changes a stored Article
\* or TopicSummary, so a call that ends before the commit leaves its
\* articles unprocessed and none of its TopicSummaries persisted; the commit
\* is reached only when every group has been attempted, and after it the
\* call returns or raises: it commits at most once.
C27_OneCommitAtTheEnd ==
    [][\A p \in Procs \ {"kwtask"} :
          /\ (StepOf(p) /\ pc[p] \in {"pb_select", "pb_ai"}) =>
                /\ articles' = articles
                /\ topic_summaries' = topic_summaries
          /\ (StepOf(p) /\ pc[p] = "pb_commit") =>
                /\ Len(loc[p].outcomes) = Len(loc[p].groups)
                /\ loc[p].gi = Len(loc[p].groups) + 1
                /\ pc'[p] \notin {"pb_select", "pb_ai", "pb_commit"}
                /\ loc'[p].pb \in {"returned", "raised"}]_vars

\* C27 witness: a process_batch over two groups, both of which got a
\* validated response, stands before its commit with their TopicSummaries
\* and markers in its session, while the articles of both groups are still
\* unprocessed in the table.
C27_Witness ==
    \E p \in Procs \ {"kwtask"} :
        /\ pc[p] = "pb_commit"
        /\ Len(loc[p].groups) = 2
        /\ \A i \in 1..2 : loc[p].outcomes[i].kind = "validated"
        /\ Len(sess[p].sums) >= 2
        /\ \A i \in 1..2 : \A id \in Range(loc[p].groups[i].ids) :
              /\ id \in sess[p].marks
              /\ ~IsMarked(articles, id)

\* the TopicSummaries with batch_id b that the step persists
PersistedFor(b) == {x \in topic_summaries' \ topic_summaries : x.batch_id = b}

\* C28: when process_batch returns, the number it returns is the number of
\* TopicSummaries with its batch_id that the call has persisted; it is 0,
\* with nothing persisted, when there was no unprocessed article or every
\* group was skipped.
C28_ReturnsCountPersisted ==
    [][\A p \in Procs \ {"kwtask"} :
          BatchReturns(p) =>
            /\ loc'[p].processed = Cardinality(PersistedFor(loc[p].batch))
            /\ (\A i \in 1..Len(loc'[p].outcomes) :
                    loc'[p].outcomes[i].kind = "exhausted")
                  => /\ loc'[p].processed = 0
                     /\ topic_summaries' = topic_summaries
                     /\ articles' = articles]_vars

\* the articles whose marker the step sets
NewlyMarked ==
    {a \in articles' : IsMarked(articles', a.id) /\ ~IsMarked(articles, a.id)}

\* C29: a step that commits the marker of an article persists, in the same
\* commit, at least one TopicSummary with the article's topic tag; so in
\* every committed state (no cleanup has run) a marked article has a
\* TopicSummary of its tag, and a session that holds a marker holds a
\* TopicSummary of that tag.
C29_MarkerWithSummaries ==
    /\ [][\A a \in NewlyMarked :
             \E x \in topic_summaries' \ topic_summaries :
                 x.keyword_tag = a.keyword_tag]_vars
    /\ [](\A a \in articles :
             a.ai_summary # NULL =>
                 \E x \in topic_summaries : x.keyword_tag = a.keyword_tag)
    /\ [](\A p \in Procs : \A id \in sess[p].marks : \A a \in articles :
             a.id = id =>
                 \E i \in 1..Len(sess[p].sums) :
                     sess[p].sums[i].keyword_tag = a.keyword_tag)

\* C29 witness: one commit of a process_batch over two groups has marked
\* the article of the group that got sections, with its TopicSummary, and
\* has left the article of the group that was given up unmarked and without
\* a TopicSummary of its tag.
C29_Witness ==
    \E p \in Procs \ {"kwtask"} :
        /\ loc[p].pb = "returned"
        /\ \E a, b \in articles :
              /\ a.ai_summary = Consolidated
              /\ \E x \in topic_summaries :
                    /\ x.keyword_tag = a.keyword_tag
                    /\ a.id \in Range(x.source_articles)
              /\ b.ai_summary = NULL
              /\ \A x \in topic_summaries : x.keyword_tag # b.keyword_tag
              /\ \E i \in 1..Len(loc[p].outcomes) :
                    /\ loc[p].outcomes[i].kind = "exhausted"
                    /\ loc[p].groups[i].tag = b.keyword_tag

\* the articles that the step changes, adds or deletes
Touched == (articles \ articles') \cup (articles' \ articles)

\* C30: a step of process_keyword changes stored Articles only by setting
\* the marker on articles of its tag that it found unprocessed, and adds
\* only TopicSummaries with its tag and batch_id; and when it ends without
\* a commit (no unprocessed article of the tag, or the attempts exhausted) it
\* has changed nothing.
C30_OnlyItsTag ==
    [][(StepOf("kwtask") /\ pc["kwtask"] \in {"pk_select", "pb_ai", "pb_commit"})
          => LET l == loc["kwtask"]
             IN  /\ \A a \in Touched :
                       /\ a.keyword_tag = l.cur
                       /\ a.id \in Range(l.groups[1].ids)
                 /\ \A a \in articles' \ articles :
                       /\ a.ai_summary = Consolidated
                       /\ \E b \in articles : b = [a EXCEPT !.ai_summary = NULL]
                 /\ {a.id : a \in articles'} = {a.id : a \in articles}
                 /\ topic_summaries \subseteq topic_summaries'
                 /\ \A x \in topic_summaries' \ topic_summaries :
                       x.keyword_tag = l.cur /\ x.batch_id = l.batch
                 /\ pc["kwtask"] # "pb_commit" =>
                       /\ articles' = articles
                       /\ topic_summaries' = topic_summaries]_vars

\* C30 witness: process_keyword has committed for its tag while an
\* unprocessed article of another tag is stored, and that article is still
\* unprocessed.
C30_Witness ==
    /\ loc["kwtask"].pb = "returned"
    /\ \E i \in 1..Len(loc["kwtask"].outcomes) :
          loc["kwtask"].outcomes[i].kind = "validated"
    /\ \E a, b \in articles :
          /\ a.keyword_tag = loc["kwtask"].cur
          /\ a.ai_summary = Consolidated
          /\ b.keyword_tag # loc["kwtask"].cur
          /\ b.ai_summary = NULL
    /\ \A x \in topic_summaries : x.keyword_tag = loc["kwtask"].cur

\* manual_refresh is over: its response is made
RefreshOver == pc["manual"] = "done"

\* an exception of collect_all or process_batch has reached manual_refresh
RefreshRaised ==
    CollectRaised("manual") \/ loc["manual"].pb = "raised"

\* C23: manual_refresh lets no exception escape; when collect_all or
\* process_batch has raised, its response has status "error" and both
\* counts 0; otherwise it has status "success", the number of Articles the
\* run has newly persisted and the number of TopicSummaries it has created.
C23_RefreshReports ==
    /\ pc["manual"] # "escaped"
    /\ RefreshOver =>
          LET r == RefreshResponse(loc["manual"])
          IN  IF RefreshRaised
              THEN r = [status |-> "error", articles_collected |-> 0,
                        articles_processed |-> 0]
              ELSE /\ r.status = "success"
                   /\ r.articles_collected = loc["manual"].nsaved
                   /\ r.articles_processed = loc["manual"].ncreated

\* the article_indices of the sections partition the positions 1..n
Partitions(idx, n) ==
    /\ Len(idx) > 0
    /\ \A j \in 1..Len(idx) :
          /\ Len(idx[j]) > 0
          /\ Range(idx[j]) \subseteq 1..n
          /\ \A h, k \in 1..Len(idx[j]) : h # k => idx[j][h] # idx[j][k]
    /\ \A j, k \in 1..Len(idx) :
          j # k => Range(idx[j]) \cap Range(idx[k]) = {}
    /\ UNION {Range(idx[j]) : j \in 1..Len(idx)} = 1..n

\* C24: end to end for one topic and one caller: the commit of the
\* collection persists exactly one Article per distinct link of the
\* candidates that no Article carried, whatever candidates repeat a link,
\* and a collection that commits nothing found every link persisted; the
\* commit of a consolidation whose validated response partitions the
\* articles of the group persists exactly one TopicSummary per section,
\* with the section's articles as sources and their number as
\* article_count.
C24_EndToEnd ==
    /\ [][(pc["manual"] = "ca_commit" /\ StepOf("manual"))
            => LET new  == loc["manual"].got \ ArticleLinks(articles)
                   rows == articles' \ articles
               IN  /\ articles \subseteq articles'
                   /\ Cardinality(rows) = Cardinality(new)
                   /\ {r.link : r \in rows} = new]_vars
    /\ [](pc["manual"] = "pb_select"
            => /\ loc["manual"].got \subseteq ArticleLinks(articles)
               /\ \A a, b \in articles : a.link = b.link => a = b)
    /\ [][(pc["manual"] = "pb_commit" /\ StepOf("manual")
             /\ Len(loc["manual"].groups) = 1
             /\ loc["manual"].outcomes[1].kind = "validated"
             /\ Partitions(loc["manual"].outcomes[1].idx,
                           Len(loc["manual"].groups[1].ids)))
            => LET g    == loc["manual"].groups[1]
                   idx  == loc["manual"].outcomes[1].idx
                   rows == topic_summaries' \ topic_summaries
                   top  == Max({x.id : x \in topic_summaries})
               IN  /\ topic_summaries \subseteq topic_summaries'
                   /\ Cardinality(rows) = Len(idx)
                   /\ \A j \in 1..Len(idx) :
                         \E x \in rows :
                            /\ x.id = top + j
                            /\ x.keyword_tag = g.tag
                            /\ x.article_count = Len(idx[j])
                            /\ x.source_articles
                                 = [k \in 1..Len(idx[j]) |-> g.ids[idx[j][k]]]]_vars

\* C24 witness: the first refresh has ended; its collection skipped a
\* duplicate candidate and persisted 2 Articles, its consolidation of two
\* sections persisted 2 TopicSummaries with article_count 1.
C24_Witness ==
    /\ pc["manual"] = "done"
    /\ runs = 1
    /\ loc["manual"].skipped
    /\ loc["manual"].nsaved = 2
    /\ Cardinality(articles) = 2
    /\ loc["manual"].ncreated = 2
    /\ Cardinality(topic_summaries) = 2
    /\ \A x \in topic_summaries : x.article_count = 1

\* _compute_basic_stats has been applied to a list that is not empty
StatsApplied == stats.applied /\ Len(stats.in) > 0

\* pct is x of total as a percentage, rounded to an integer
NearestPct(pct, x, total) ==
    /\ 2 * (pct * total - 100 * x) <= total
    /\ 2 * (100 * x - pct * total) <= total

\* the highlights are at most 3 (all when there are fewer) different
\* non-neutral articles of the list, none older than a non-neutral article
\* that was left out
HighlightsOf(as, reads) ==
    LET nn   == {i \in 1..Len(as) : as[i].sentiment \in {"Bullish", "Bearish"}}
        pick == {i \in 1..Len(as) :
                    \E k \in 1..Len(reads) : reads[k].article_id = as[i].id}
    IN  /\ Len(reads) <= 3
        /\ Cardinality(pick) = Len(reads)
        /\ pick \subseteq nn
        /\ Len(reads) = 3 \/ pick = nn
        /\ \A i \in pick : \A j \in nn \ pick : as[i].created >= as[j].created

\* C22: for a list of articles that is not empty, the fallback returns
\* bullish_pct, bearish_pct and neutral_pct as the rounded percentages of
\* the Bullish, the Bearish and the other articles of the list, each
\* rounded by itself, and as highlights at most 3 articles, all of them
\* non-neutral and the most recent non-neutral ones.
C22_FallbackStats ==
    StatsApplied =>
        LET as == stats.in
            b  == Len(SelectSeq(as, LAMBDA a : a.sentiment = "Bullish"))
            r  == Len(SelectSeq(as, LAMBDA a : a.sentiment = "Bearish"))
        IN  /\ ~stats.out.raised
            /\ NearestPct(stats.out.bullish_pct, b, Len(as))
            /\ NearestPct(stats.out.bearish_pct, r, Len(as))
            /\ NearestPct(stats.out.neutral_pct, Len(as) - b - r, Len(as))
            /\ HighlightsOf(as, stats.out.must_reads)

\* the ids process_batch of p works on
SelectedBy(l) == UNION {Range(l.groups[i].ids) : i \in 1..Len(l.groups)}

\* C31: nothing excludes a manual refresh and a scheduled run from each
\* other: either may start while the other runs; the select of
\* process_batch takes every article without marker, also one that the
\* other run has selected and not yet committed; and a commit persists the
\* TopicSummaries of its run under its batch identifier, also for articles
\* the other run has summarised.
C31_NotExcluded ==
    /\ []((pc["manual"] = "idle" /\ runs < MaxRuns) => ENABLED StartManual)
    /\ []((pc["morning"] = "idle" /\ runs < MaxRuns)
             => ENABLED StartJob("morning"))
    /\ [][\A p \in Racers :
            (pc[p] = "pb_select" /\ pc'[p] = "pb_ai")
              => SelectedBy(loc'[p])
                   = {a.id : a \in {b \in articles : b.ai_summary = NULL}}]_vars
    /\ [][\A p \in Racers :
            (pc[p] = "pb_commit" /\ StepOf(p) /\ loc'[p].pb = "returned")
              => \A i \in 1..Len(sess[p].sums) :
                    \E x \in topic_summaries' \ topic_summaries :
                       /\ x.batch_id = loc[p].batch
                       /\ x.source_articles = sess[p].sums[i].source_articles]_vars

\* C31 witness: the manual refresh and the morning job have both selected
\* the same unprocessed article before either committed, and each has
\* persisted a TopicSummary of it under its own batch identifier.
C31_Witness ==
    \E x, y \in topic_summaries :
        /\ x.batch_id[2] = "manual"
        /\ y.batch_id[2] = "morning"
        /\ Range(x.source_articles) \cap Range(y.source_articles) # {}

ExtractApplied == fcall.fn = "extract_article_body" /\ fcall.applied

\* C33 as claimed: the Body Extractor raises nothing; it returns none when
\* the request or the parser fails; for a page it has read it returns none
\* exactly when the extracted text has fewer than 100 characters, and
\* otherwise the text, cut to at most 2000 characters plus the ellipsis
\* marker.
C33_ExtractorTotal ==
    ExtractApplied =>
        LET page == fcall.in
            out  == fcall.out
            text == JoinedLen(page.paras)
        IN  /\ ~out.raised
            /\ page.fetch # "ok" => out.none
            /\ page.fetch = "ok" =>
                  /\ out.none <=> text < 100
                  /\ ~out.none =>
                        /\ out.len <= 2000 + 3
                        /\ out.len = IF text > 2000 THEN 2000 + 3 ELSE text

\* C33, amended: the Body Extractor raises nothing; it returns none when
\* the request or the parser fails; for a page it has read it returns none
\* exactly when the extracted text has at most 100 characters, and
\* otherwise the text, cut to at most 2000 characters plus the ellipsis
\* marker.
C33_ExtractorTotalAmended ==
    ExtractApplied =>
        LET page == fcall.in
            out  == fcall.out
            text == JoinedLen(page.paras)
        IN  /\ ~out.raised
            /\ page.fetch # "ok" => out.none
            /\ page.fetch = "ok" =>
                  /\ out.none <=> text <= 100
                  /\ ~out.none =>
                        /\ out.len <= 2000 + 3
                        /\ out.len = IF text > 2000 THEN 2000 + 3 ELSE text

\* C33 witness: a page whose extracted text has exactly 100 characters has
\* been read, and the extractor has returned none.
C33_Witness ==
    /\ ExtractApplied
    /\ fcall.in.fetch = "ok"
    /\ JoinedLen(fcall.in.paras) = 100
    /\ fcall.out.none

SourceApplied == fcall.fn = "_extract_source" /\ fcall.applied

\* the origin URL has a domain
HasDomain(url) == url.kind = "authority" /\ url.host # <<>>

\* C34: the source name of the domestic-region adapter is the capitalized
\* first label of the origin URL's domain, "www." removed, when the URL has
\* a domain, and "Unknown" when the URL is absent, empty or not resolvable;
\* it is never the empty string.
C34_SourceName ==
    SourceApplied =>
        LET url == fcall.in
            out == fcall.out
        IN  /\ HasDomain(url) =>
                  /\ ~out.unknown
                  /\ out.name = Capitalize(FirstPart(RemoveWww(url.host)))
            /\ ~HasDomain(url) => out.unknown
            /\ out.unknown \/ out.name # <<>>

\* a collect_all call of the manual refresh has returned
PassDue == pc["manual"] = "pb_select"

\* the ids of the articles the body-extraction pass is to cover: without
\* snippet, or unprocessed with a snippet
DueForBody(db) ==
    {a.id : a \in {b \in db : \/ b.snippet = <<>>
                              \/ b.ai_summary = NULL /\ b.snippet # <<>>}}

C38_EnrichedOnce ==
    [][\A a \in articles : \A b \in articles' :
          (a.id = b.id /\ (\E i \in 1..Len(a.snippet) : a.snippet[i] = "body"))
             => b.snippet = a.snippet]_vars

C36_AllReferenced ==
    [][\A p \in Procs :
          (GroupEnds(p) /\ loc'[p].outcomes[Len(loc'[p].outcomes)].kind = "validated")
            => LET g   == loc[p].groups[loc[p].gi]
                   new == Added(p)
               IN  \A id \in Range(g.ids) :
                      \E j \in 1..Len(new) : id \in Range(new[j].source_articles)]_vars

\* C36, amended: when a group's validated response has been mapped, every
\* article of the group is marked, every source of the TopicSummaries made
\* for the group is an article of the group, and an article of the group is
\* a source of one of them exactly when a section lists its position or a
\* section lists no position within the group.
C36_MarkedListedOrNot ==
    [][\A p \in Procs :
          (GroupEnds(p) /\ loc'[p].outcomes[Len(loc'[p].outcomes)].kind = "validated")
            => LET g   == loc[p].groups[loc[p].gi]
                   idx == loc'[p].outcomes[Len(loc'[p].outcomes)].idx
                   new == Added(p)
               IN  /\ Range(g.ids) \subseteq sess'[p].marks
                   /\ \A j \in 1..Len(new) :
                         Range(new[j].source_articles) \subseteq Range(g.ids)
                   /\ \A k \in 1..Len(g.ids) :
                         (\E j \in 1..Len(new) :
                               g.ids[k] \in Range(new[j].source_articles))
                           <=> \E j \in 1..Len(idx) :
                                  \/ InRange(idx[j], Len(g.ids)) = {}
                                  \/ \E h \in 1..Len(idx[j]) : idx[j][h] = k]_vars

\* C36 witness: a commit has marked two articles of one group and persisted
\* one TopicSummary, which lists only one of them.
C36_Witness ==
    \E a, b \in articles :
        /\ a.ai_summary # NULL /\ b.ai_summary # NULL
        /\ a.keyword_tag = b.keyword_tag
        /\ \E x \in topic_summaries : a.id \in Range(x.source_articles)
        /\ \A x \in topic_summaries : b.id \notin Range(x.source_articles)

NoRepeat(seq) == \A i, j \in 1..Len(seq) : seq[i] = seq[j] => i = j

\* C37: the sources of every TopicSummary that a commit persists are one or
\* more articles of its own group, none of them twice, and its article_count
\* is at least 1 and at most the number of articles of the group, whatever
\* positions the validated response lists.
C37_SourcesAreASelection ==
    [][(pc["manual"] = "pb_commit" /\ loc'["manual"].pb = "returned")
         => \A x \in topic_summaries' \ topic_summaries :
               \E i \in 1..Len(loc["manual"].outcomes) :
                  LET g == loc["manual"].groups[i]
                  IN  /\ loc["manual"].outcomes[i].kind = "validated"
                      /\ g.tag = x.keyword_tag
                      /\ x.source_articles # <<>>
                      /\ NoRepeat(x.source_articles)
                      /\ Range(x.source_articles) \subseteq Range(g.ids)
                      /\ 1 <= x.article_count
                      /\ x.article_count <= Len(g.ids)]_vars

HasArticle(k) == \E a \in articles : a.link = k

MarkedArticle(k) == \E a \in articles : a.link = k /\ a.ai_summary # NULL

====
